---------------------------- MODULE Spec2Model ----------------------------
(***************************************************************************)
(* Verification model of the measurement-database repository:              *)
(*   - the filename metadata parser (main.py, database_api.py, test.py),   *)
(*   - the folder scan built on it (parse_folder),                         *)
(*   - the spectral feature extraction (analysis.py).                      *)
(*                                                                         *)
(* Strings are modelled as sequences of one-character strings so that the  *)
(* regular expressions and the split/strip calls are computed character    *)
(* by character, as the Python code computes them.                         *)
(***************************************************************************)
EXTENDS Integers, Sequences, FiniteSets, TLC

VARIABLES
    parser,         \* which module's functions run: "main" | "DatabaseAPI"
    filename,       \* the argument of parse_filename
    outcome,        \* what the call did: not called yet, returned, or raised
    folder_exists,  \* parse_folder: whether folder_path exists
    folder,         \* parse_folder: the names of the files in the folder
    scan,           \* parse_folder: where the call stands
    valid_files,    \* parse_folder: filename -> parsed record
    invalid_files,  \* parse_folder: the names listed as invalid
    wavelength,     \* MRM_SPCM_analysis: the wavelength array (nm)
    loss,           \* MRM_SPCM_analysis: the loss array (dB)
    distance,       \* MRM_SPCM_analysis: the distance argument (samples)
    analysis,       \* MRM_SPCM_analysis: what the call did
    ssrf_frequency, \* MRM_SSRF_analysis: the frequency array
    s21,            \* MRM_SSRF_analysis: the S21 array (dB)
    reference_frequency,  \* MRM_SSRF_analysis: argument
    drop_levels,    \* MRM_SSRF_analysis: argument (dB)
    ssrf,           \* MRM_SSRF_analysis: what the call did
    sweep_file,     \* read_spectrum: the lines of the file at path
    sweep,          \* read_spectrum: what the call did
    ssrf_file,      \* read_ssrf: the lines of the file at path
    params,         \* read_ssrf: what the call did
    dut_rows,       \* DatabaseAPI: the DUT table as the connection sees it
    dut_committed,  \* DatabaseAPI: the DUT table as last committed
    dut_calls,      \* insert_dut: the calls made, with what each returned
    imp_input,      \* import_measurement_folder: the folder and its surroundings
    imp,            \* import_measurement_folder: where the call stands
    imp_db,         \* import_measurement_folder: the tables, open and committed
    imp_fs,         \* import_measurement_folder: the files and directories on disk
    pool            \* import_measurement_folder: the executor's tasks

parseVars == <<filename, outcome>>

folderVars == <<folder_exists, folder, scan, valid_files, invalid_files>>

valleyVars == <<wavelength, loss, distance, analysis>>

sweepVars == <<sweep_file, sweep>>

ssrfVars == <<ssrf_file, params>>

dutVars == <<dut_rows, dut_committed, dut_calls>>

importVars == <<imp_input, imp, imp_db, imp_fs, pool>>

bandVars == <<ssrf_frequency, s21, reference_frequency, drop_levels, ssrf>>

vars == <<parser, parseVars, folderVars, valleyVars,
         bandVars,
         sweepVars,
         ssrfVars,
         dutVars,
         importVars>>

(***************************************************************************)
(* Characters and strings                                                  *)
(***************************************************************************)
Digits == {"0", "1", "2", "3", "4", "5", "6", "7", "8", "9"}

Letters ==
    {"a", "b", "c", "d", "e", "f", "g", "h", "i", "j", "k", "l", "m",
     "n", "o", "p", "q", "r", "s", "t", "u", "v", "w", "x", "y", "z",
     "A", "B", "C", "D", "E", "F", "G", "H", "I", "J", "K", "L", "M",
     "N", "O", "P", "Q", "R", "S", "T", "U", "V", "W", "X", "Y", "Z"}

DigitValue(c) ==
    CASE c = "0" -> 0 [] c = "1" -> 1 [] c = "2" -> 2 [] c = "3" -> 3
      [] c = "4" -> 4 [] c = "5" -> 5 [] c = "6" -> 6 [] c = "7" -> 7
      [] c = "8" -> 8 [] c = "9" -> 9

Take(s, n) == SubSeq(s, 1, n)

Drop(s, n) == SubSeq(s, n + 1, Len(s))

StartsWith(s, p) == Len(s) >= Len(p) /\ Take(s, Len(p)) = p

EndsWith(s, p) == Len(s) >= Len(p) /\ Drop(s, Len(s) - Len(p)) = p

\* Length of the longest prefix of s whose characters all lie in class.
RECURSIVE SpanLen(_, _)
SpanLen(s, class) ==
    IF s = <<>> \/ s[1] \notin class THEN 0 ELSE 1 + SpanLen(Tail(s), class)

\* \d+ over the whole of s
AllDigits(s) == s # <<>> /\ \A k \in 1..Len(s) : s[k] \in Digits

\* -?\d+ over the whole of s
SignedDigits(s) ==
    IF s # <<>> /\ s[1] = "-" THEN AllDigits(Tail(s)) ELSE AllDigits(s)

\* Position of the first c in s, 0 when there is none.
IndexOf(s, c) ==
    IF \E k \in 1..Len(s) : s[k] = c
    THEN CHOOSE k \in 1..Len(s) : s[k] = c /\ \A j \in 1..(k - 1) : s[j] # c
    ELSE 0

\* Position of the last c in s, 0 when there is none.
LastIndexOf(s, c) ==
    IF \E k \in 1..Len(s) : s[k] = c
    THEN CHOOSE k \in 1..Len(s) : s[k] = c /\ \A j \in (k + 1)..Len(s) : s[j] # c
    ELSE 0

\* str.split(sep): always at least one piece, empty pieces kept.
RECURSIVE Split(_, _)
Split(s, sep) ==
    LET k == IndexOf(s, sep)
    IN  IF k = 0 THEN <<s>> ELSE <<Take(s, k - 1)>> \o Split(Drop(s, k), sep)

\* str.strip(c): every leading and trailing c removed.
RECURSIVE LStrip(_, _)
LStrip(s, c) == IF s # <<>> /\ s[1] = c THEN LStrip(Tail(s), c) ELSE s

RECURSIVE RStrip(_, _)
RStrip(s, c) ==
    IF s # <<>> /\ s[Len(s)] = c THEN RStrip(Take(s, Len(s) - 1), c) ELSE s

Strip(s, c) == RStrip(LStrip(s, c), c)

\* sep.join(pieces)
RECURSIVE Join(_, _)
Join(pieces, sep) ==
    IF pieces = <<>> THEN <<>>
    ELSE IF Len(pieces) = 1 THEN pieces[1]
    ELSE pieces[1] \o sep \o Join(Tail(pieces), sep)

\* Path(filename).name on a POSIX path: trailing separators are dropped and
\* the last component is kept.
PathName(path) ==
    LET p == RStrip(path, "/")
    IN  Drop(p, LastIndexOf(p, "/"))


(***************************************************************************)
(* The fixed-prefix grammar: MAIN_PATTERN                                  *)
(*                                                                         *)
(* Every field of the prefix is delimited by a literal "_" and no field    *)
(* pattern can itself match "_", so a match of the regular expression is   *)
(* exactly: split the name at its first underscores, test each piece       *)
(* against its field pattern, and test what follows the last field         *)
(* against the power, the "dBm" tag, the rest and the extension.           *)
(***************************************************************************)
s_die == <<"d", "i", "e">>
s_rep == <<"r", "e", "p">>
s_ch == <<"c", "h">>
s_dBm == <<"d", "B", "m">>
s_SMU == <<"S", "M", "U">>
s_arg == <<"a", "r", "g">>

SUPPORTED_EXTENSIONS ==
    { <<".", "c", "s", "v">>, <<".", "t", "x", "t">>, <<".", "s", "2", "p">> }

\* main.py, batch_import.py: the legacy grammar (<<group name, field pattern>>)
MAIN_PATTERN ==
    << <<"datatype", "any">>, <<"wafer", "any">>, <<"doe", "any">>,
       <<"die", "die">>, <<"cage", "any">>, <<"device", "any">>,
       <<"temperature", "temp">>, <<"repeat", "rep">>, <<"", "ch">>,
       <<"ch_in", "digits">>, <<"ch_out", "digits">> >>

\* database_api.py, test.py: the extended grammar with sub-die and "#" repeat
DatabaseAPI_MAIN_PATTERN ==
    << <<"datatype", "any">>, <<"wafer", "any">>, <<"doe", "any">>,
       <<"cage", "any">>, <<"die", "die">>, <<"subdie", "digits">>,
       <<"temperature", "temp">>, <<"repeat", "hash">>, <<"device", "any">>,
       <<"", "ch">>, <<"ch_in", "digits">>, <<"ch_out", "digits">> >>

\* Seeded fault: DatabaseAPI still compiled with the legacy pattern.
PatternOf_LegacyOnly(p) == MAIN_PATTERN

PatternOf(p) == IF p = "main" THEN MAIN_PATTERN ELSE DatabaseAPI_MAIN_PATTERN

\* Whether piece f matches the field pattern kind in full.
FieldMatches(kind, f) ==
    CASE kind = "any"    -> f # <<>>                                \* [^_]+
      [] kind = "die"    -> StartsWith(f, s_die) /\ AllDigits(Drop(f, 3))
      [] kind = "digits" -> AllDigits(f)
      [] kind = "temp"   -> /\ f # <<>>
                            /\ f[Len(f)] = "C"
                            /\ SignedDigits(Take(f, Len(f) - 1))
      [] kind = "rep"    -> StartsWith(f, s_rep) /\ AllDigits(Drop(f, 3))
      [] kind = "hash"   -> f # <<>> /\ f[1] = "#" /\ AllDigits(Tail(f))
      [] kind = "ch"     -> f = s_ch

\* Seeded fault: the die group also captures its "die" tag.
Capture_KeepsTag(kind, f) ==
    CASE kind = "temp" -> Take(f, Len(f) - 1)
      [] kind = "rep"  -> Drop(f, 3)
      [] kind = "hash" -> Tail(f)
      [] OTHER         -> f

\* The named group's text inside a matching piece.
Capture(kind, f) ==
    CASE kind = "die"  -> Drop(f, 3)
      [] kind = "temp" -> Take(f, Len(f) - 1)
      [] kind = "rep"  -> Drop(f, 3)
      [] kind = "hash" -> Tail(f)
      [] OTHER         -> f

\* What follows the last "_" of the prefix: the power group -?\d+, the tag
\* dBm, the rest group (any characters but a newline), a "." and one of the
\* extensions csv, txt, s2p, then "$".  "$" matches at the end and also just
\* before a newline that ends the string.
TailMatch(r) ==
    LET body   == IF r # <<>> /\ r[Len(r)] = "\n" THEN Take(r, Len(r) - 1) ELSE r
        extOk  == \E e \in SUPPORTED_EXTENSIONS : EndsWith(body, e)
        core   == Take(body, Len(body) - 4)
        sign   == IF core # <<>> /\ core[1] = "-" THEN 1 ELSE 0
        nd     == SpanLen(Drop(core, sign), Digits)
        after  == Drop(core, sign + nd)
        rest   == Drop(after, 3)
    IN  IF extOk /\ nd >= 1 /\ StartsWith(after, s_dBm)
           /\ \A k \in 1..Len(rest) : rest[k] # "\n"
        THEN [matched |-> TRUE, power |-> Take(core, sign + nd), rest |-> rest]
        ELSE [matched |-> FALSE, power |-> <<>>, rest |-> <<>>]

GroupNames(pattern) ==
    ({pattern[j][1] : j \in 1..Len(pattern)} \ {""}) \cup {"power"}

\* pattern.match(name): the groups of the match, or no match.
RegexMatch(pattern, name) ==
    LET n      == Len(pattern)
        pieces == Split(name, "_")
        tm     == TailMatch(Join(SubSeq(pieces, n + 1, Len(pieces)), "_"))
        idx(k) == CHOOSE j \in 1..n : pattern[j][1] = k
    IN  IF /\ Len(pieces) >= n + 1
           /\ \A j \in 1..n : FieldMatches(pattern[j][2], pieces[j])
           /\ tm.matched
        THEN [matched |-> TRUE,
              groups  |-> [k \in GroupNames(pattern) |->
                              IF k = "power" THEN tm.power
                              ELSE Capture(pattern[idx(k)][2], pieces[idx(k)])],
              rest    |-> tm.rest]
        ELSE [matched |-> FALSE, groups |-> <<>>, rest |-> <<>>]

(***************************************************************************)
(* Numeric+unit tokens: re.match of the number group and the unit group    *)
(***************************************************************************)
\* Group 1, [-+]?\d*\.?\d+, is the optional sign, the leading digits and,
\* when a "." followed by a digit comes next, the "." and the digits after
\* it; without such a fraction at least one leading digit is needed.
\* Group 2 is the run of letters and "%" that follows.  What comes after
\* that is not looked at.  No match is Python's None.
NumericUnit(token) ==
    LET sign  == IF token # <<>> /\ token[1] \in {"-", "+"} THEN 1 ELSE 0
        s1    == Drop(token, sign)
        n1    == SpanLen(s1, Digits)
        s2    == Drop(s1, n1)
        n2    == IF s2 # <<>> /\ s2[1] = "." THEN SpanLen(Tail(s2), Digits) ELSE 0
        nlen  == sign + n1 + (IF n2 > 0 THEN 1 + n2 ELSE 0)
        after == Drop(token, nlen)
    IN  IF n1 = 0 /\ n2 = 0
        THEN [matched |-> FALSE, number |-> <<>>, unit |-> <<>>]
        ELSE [matched |-> TRUE,
              number  |-> Take(token, nlen),
              unit    |-> Take(after, SpanLen(after, Letters \cup {"%"}))]

RECURSIVE DigitsValue(_)
DigitsValue(ds) ==
    IF ds = <<>> THEN 0
    ELSE 10 * DigitsValue(Take(ds, Len(ds) - 1)) + DigitValue(ds[Len(ds)])

RECURSIVE Pow10(_)
Pow10(n) == IF n = 0 THEN 1 ELSE 10 * Pow10(n - 1)

\* A decimal value num / 10^exp in lowest terms of 10.
RECURSIVE Normalise(_, _)
Normalise(num, exp) ==
    IF exp > 0 /\ num % 10 = 0 THEN Normalise(num \div 10, exp - 1)
    ELSE [num |-> num, exp |-> exp]

\* float(text) for a text that group 1 above matched.
Float(text) ==
    LET neg   == text # <<>> /\ text[1] = "-"
        sign  == IF text # <<>> /\ text[1] \in {"-", "+"} THEN 1 ELSE 0
        s1    == Drop(text, sign)
        n1    == SpanLen(s1, Digits)
        frac  == Drop(s1, n1 + 1)
        mag   == DigitsValue(Take(s1, n1)) * Pow10(Len(frac)) + DigitsValue(frac)
    IN  Normalise(IF neg THEN 0 - mag ELSE mag, Len(frac))


(***************************************************************************)
(* parse_filename: the walk over the tokens of the rest                    *)
(*                                                                         *)
(* The walk state st holds the code's locals i, ec_i, arg_i, pass_SMU and  *)
(* the two result lists.  error is the exception the statement raised      *)
(* ("" for none) and log records, for every loop iteration that finished,  *)
(* which branch ran, where, how many tokens it consumed, which list it     *)
(* appended to and the value of pass_SMU when the iteration began.         *)
(***************************************************************************)
Token(tokens, st) == tokens[st.i + 1]

Raise(st, exc) == [st EXCEPT !.error = exc]

\* Seeded fault: type and channel stored under each other's key.
SMUEntry_Swapped(st, type, channel, m) ==
    [ec |-> st.ec_i, type |-> channel, channel |-> type,
     value |-> <<Float(m.number), m.unit>>]

SMUEntry(st, type, channel, m) ==
    [ec |-> st.ec_i, type |-> type, channel |-> channel,
     value |-> <<Float(m.number), m.unit>>]

ArgEntry(st, m) == [arg |-> st.arg_i, value |-> <<Float(m.number), m.unit>>]

LogEntry(rule, st, n, out) ==
    [rule |-> rule, at |-> st.i, n |-> n, out |-> out, pass_SMU |-> st.pass_SMU]

\* if token == "SMU":
IsRuleA(tokens, st) == Token(tokens, st) = s_SMU

\* Seeded fault: the explicit block advances the cursor by 3, not 4.
RuleA_ShortAdvance(tokens, st) ==
    IF st.i + 3 >= Len(tokens) THEN Raise(st, "IndexError")
    ELSE LET m == NumericUnit(tokens[st.i + 4])
         IN  IF ~m.matched THEN Raise(st, "TypeError")
             ELSE [st EXCEPT
                     !.SMU  = Append(@, SMUEntry(st, tokens[st.i + 2],
                                                 tokens[st.i + 3], m)),
                     !.i    = @ + 3,
                     !.ec_i = @ + 1,
                     !.log  = Append(@, LogEntry("A", st, 4, "SMU"))]

\* tokens[i + 3] is read first; a missing token is an IndexError, a token
\* without a numeric prefix makes match None and match[1] a TypeError.
RuleA(tokens, st) ==
    IF st.i + 3 >= Len(tokens) THEN Raise(st, "IndexError")
    ELSE LET m == NumericUnit(tokens[st.i + 4])
         IN  IF ~m.matched THEN Raise(st, "TypeError")
             ELSE [st EXCEPT
                     !.SMU  = Append(@, SMUEntry(st, tokens[st.i + 2],
                                                 tokens[st.i + 3], m)),
                     !.i    = @ + 4,
                     !.ec_i = @ + 1,
                     !.log  = Append(@, LogEntry("A", st, 4, "SMU"))]

\* Seeded fault: the implicit block asks for three more tokens, not two.
IsRuleB_NeedsFour(tokens, st) ==
    st.i + 3 < Len(tokens) /\ Token(tokens, st) # s_arg /\ ~st.pass_SMU

\* if i + 2 < len(tokens) and token != "arg" and not pass_SMU:
IsRuleB(tokens, st) ==
    st.i + 2 < Len(tokens) /\ Token(tokens, st) # s_arg /\ ~st.pass_SMU

RuleB(tokens, st) ==
    LET m == NumericUnit(tokens[st.i + 3])
    IN  IF ~m.matched THEN Raise(st, "TypeError")
        ELSE [st EXCEPT
                !.SMU  = Append(@, SMUEntry(st, tokens[st.i + 1],
                                            tokens[st.i + 2], m)),
                !.i    = @ + 3,
                !.ec_i = @ + 1,
                !.log  = Append(@, LogEntry("B", st, 3, "SMU"))]

\* if token == "arg":
IsRuleC(tokens, st) == Token(tokens, st) = s_arg

\* Seeded fault: the explicit argument does not set pass_SMU.
RuleC_KeepsFlag(tokens, st) ==
    IF st.i + 1 >= Len(tokens) THEN Raise(st, "IndexError")
    ELSE LET m == NumericUnit(tokens[st.i + 2])
         IN  IF ~m.matched THEN Raise(st, "TypeError")
             ELSE [st EXCEPT
                     !.arguments = Append(@, ArgEntry(st, m)),
                     !.arg_i     = @ + 1,
                     !.i         = @ + 2,
                     !.log       = Append(@, LogEntry("C", st, 2, "arguments"))]

RuleC(tokens, st) ==
    IF st.i + 1 >= Len(tokens) THEN Raise(st, "IndexError")
    ELSE LET m == NumericUnit(tokens[st.i + 2])
         IN  IF ~m.matched THEN Raise(st, "TypeError")
             ELSE [st EXCEPT
                     !.arguments = Append(@, ArgEntry(st, m)),
                     !.arg_i     = @ + 1,
                     !.i         = @ + 2,
                     !.pass_SMU  = TRUE,
                     !.log       = Append(@, LogEntry("C", st, 2, "arguments"))]

\* if token: ... ; i += 1      (an empty token is stepped over)
RuleD(tokens, st) ==
    LET token == Token(tokens, st)
        m     == NumericUnit(token)
    IN  IF token = <<>>
        THEN [st EXCEPT !.i   = @ + 1,
                        !.log = Append(@, LogEntry("D", st, 1, "none"))]
        ELSE IF ~m.matched THEN Raise(st, "TypeError")
        ELSE [st EXCEPT
                !.arguments = Append(@, ArgEntry(st, m)),
                !.arg_i     = @ + 1,
                !.i         = @ + 1,
                !.log       = Append(@, LogEntry("D", st, 1, "arguments"))]

\* One iteration of  while i < len(tokens)
WalkStep(tokens, st) ==
    IF IsRuleA(tokens, st) THEN RuleA(tokens, st)
    ELSE IF IsRuleB(tokens, st) THEN RuleB(tokens, st)
    ELSE IF IsRuleC(tokens, st) THEN RuleC(tokens, st)
    ELSE RuleD(tokens, st)

RECURSIVE Walk(_, _)
Walk(tokens, st) ==
    IF st.error # "" \/ st.i >= Len(tokens) THEN st
    ELSE Walk(tokens, WalkStep(tokens, st))

WalkInit ==
    [i |-> 0, ec_i |-> 1, arg_i |-> 1, pass_SMU |-> FALSE,
     SMU |-> <<>>, arguments |-> <<>>, error |-> "", log |-> <<>>]

\* tokens = rest.strip("_").split("_")
Tokens(rest) == Split(Strip(rest, "_"), "_")

NoCall ==
    [kind |-> "none", fixed |-> <<>>, SMU |-> <<>>, arguments |-> <<>>,
     tokens |-> <<>>, i |-> 0, pass_SMU |-> FALSE, log |-> <<>>]

Raised(exc) == [NoCall EXCEPT !.kind = exc]

\* parse_filename(filename): kind is "ok" for a return and the exception's
\* type for a raise; fixed, SMU and arguments are the returned dict; tokens,
\* i, pass_SMU and log are the walk's locals when it ended.
parse_filename(p, fname) ==
    LET name == PathName(fname)
        m    == RegexMatch(PatternOf(p), name)
        w    == Walk(Tokens(m.rest), WalkInit)
    IN  IF ~m.matched THEN Raised("ValueError")
        ELSE IF m.rest = <<>> THEN [NoCall EXCEPT !.kind = "ok", !.fixed = m.groups]
        ELSE IF w.error # ""
             THEN [Raised(w.error) EXCEPT !.tokens = Tokens(m.rest),
                                          !.i = w.i, !.pass_SMU = w.pass_SMU,
                                          !.log = w.log]
        ELSE [kind |-> "ok", fixed |-> m.groups, SMU |-> w.SMU,
              arguments |-> w.arguments, tokens |-> Tokens(m.rest),
              i |-> w.i, pass_SMU |-> w.pass_SMU, log |-> w.log]


(***************************************************************************)
(* Inputs of parse_filename                                                *)
(*                                                                         *)
(* A filename is put together from a directory, the three leading fields,  *)
(* the identity fields, the channel fields, the power field, the rest, an  *)
(* extension and what follows it.  The pieces marked valid are those of    *)
(* the example names in the sources; the others each break one field.      *)
(***************************************************************************)
\* no directory, or one
Dirs ==
    { <<>>,
      <<"d", "a", "t", "a", "/">> }

\* datatype_wafer_doe: two valid, one with an empty datatype
Heads ==
    { <<"S", "P", "C", "M", "_", "W", "0", "0", "1", "_", "D", "1">>,
      <<"D", "C", "I", "V", "_", "P", "I", "C", "9", "-", "F", "P", "N", "3", "_", "D", "O", "E", "1">>,
      <<"_", "W", "0", "0", "1", "_", "D", "1">> }

\* _die<d>_<cage>_<device>_<t>C_rep<n>: two valid, die without digits, no C
LegacyMiddles ==
    { <<"_", "d", "i", "e", "2", "_", "C", "1", "_", "D", "e", "v", "1", "_", "2", "5", "C", "_", "r", "e", "p", "1">>,
      <<"_", "d", "i", "e", "2", "_", "C", "1", "_", "D", "e", "v", "1", "_", "-", "5", "C", "_", "r", "e", "p", "1">>,
      <<"_", "d", "i", "e", "_", "C", "1", "_", "D", "e", "v", "1", "_", "2", "5", "C", "_", "r", "e", "p", "1">>,
      <<"_", "d", "i", "e", "2", "_", "C", "1", "_", "D", "e", "v", "1", "_", "2", "5", "_", "r", "e", "p", "1">> }

\* _<cage>_die<d>_<subdie>_<t>C_#<n>_<device>: two valid, a non-numeric sub-die
ExtendedMiddles ==
    { <<"_", "M", "R", "M", "1", "5", "8", "_", "d", "i", "e", "1", "_", "1", "_", "2", "5", "C", "_", "#", "1", "_", "D", "4">>,
      <<"_", "d", "i", "e", "3", "_", "d", "i", "e", "1", "_", "1", "_", "-", "5", "C", "_", "#", "2", "_", "D", "4">>,
      <<"_", "M", "R", "M", "1", "5", "8", "_", "d", "i", "e", "1", "_", "x", "_", "2", "5", "C", "_", "#", "1", "_", "D", "4">> }

\* _ch_<in>_<out>: valid, one channel missing, wrong case
Channels ==
    { <<"_", "c", "h", "_", "1", "_", "2">>,
      <<"_", "c", "h", "_", "9">>,
      <<"_", "C", "H", "_", "1", "_", "2">> }

\* _<p>dBm: two valid, no digits
Powers ==
    { <<"_", "-", "1", "0", "d", "B", "m">>,
      <<"_", "5", "d", "B", "m">>,
      <<"_", "d", "B", "m">> }

\* the rest: empty, one explicit block, no separator
Rests ==
    { <<>>,
      <<"_", "S", "M", "U", "_", "p", "n", "_", "1", "_", "9", "0", "0", "m", "V">>,
      <<".", "b", "a", "k">> }

\* extensions: the three supported, two others
Exts ==
    { <<".", "c", "s", "v">>,
      <<".", "t", "x", "t">>,
      <<".", "s", "2", "p">>,
      <<".", "j", "s", "o", "n">>,
      <<".", "C", "S", "V">> }

\* what follows the extension: nothing, or a newline
Tails ==
    { <<>>,
      <<"\n">> }

Parsers == {"main", "DatabaseAPI"}

PrefixInputs ==
    { d \o h \o m \o c \o pw \o r \o e \o t :
        d \in Dirs, h \in Heads, m \in LegacyMiddles \cup ExtendedMiddles,
        c \in Channels, pw \in Powers, r \in Rests, e \in Exts, t \in Tails }

\* The valid prefix of the parser's own grammar (spec example; test.py:77)
LegacyPrefix ==
    <<"S", "P", "C", "M", "_", "W", "0", "0", "1", "_", "D", "1", "_", "d", "i", "e", "2", "_", "C", "1", "_", "D", "e", "v", "1", "_", "2", "5", "C", "_", "r", "e", "p", "1", "_", "c", "h", "_", "1", "_", "2", "_", "-", "1", "0", "d", "B", "m">>

ExtendedPrefix ==
    <<"D", "C", "I", "V", "_", "P", "I", "C", "9", "-", "F", "P", "N", "3", "_", "D", "O", "E", "1", "_", "M", "R", "M", "1", "5", "8", "_", "d", "i", "e", "1", "_", "1", "_", "2", "5", "C", "_", "#", "1", "_", "D", "4", "_", "c", "h", "_", "9", "_", "9", "_", "5", "d", "B", "m">>

OwnPrefix(p) == IF p = "main" THEN LegacyPrefix ELSE ExtendedPrefix

\* Tokens of the rest: the two markers, a tag, numbers with and without a unit,
\* and the empty token a doubled separator gives
Vocabulary ==
    { <<"S", "M", "U">>,
      <<"a", "r", "g">>,
      <<"p", "n">>,
      <<"1">>,
      <<"9", "0", "0", "m", "V">>,
      <<"-", "1", ".", "5", "V">>,
      <<>> }

MaxTokens == 4

TokenLists == UNION { [1..k -> Vocabulary] : k \in 0..MaxTokens }

s_csv == <<".", "c", "s", "v">>

\* prefix, then "_" before every token, then the extension
SuffixInput(p, toks) ==
    OwnPrefix(p) \o (IF toks = <<>> THEN <<>> ELSE <<"_">> \o Join(toks, <<"_">>))
                 \o s_csv

(***************************************************************************)
(* Calls of parse_filename                                                 *)
(***************************************************************************)
\* MRM_SPCM_analysis has not been called.
NoAnalysis ==
    [kind |-> "none", steps |-> <<>>, valley_idx |-> <<>>,
     shape |-> "", result |-> <<>>]

ValleysIdle ==
    wavelength = <<>> /\ loss = <<>> /\ distance = 0 /\ analysis = NoAnalysis

\* MRM_SSRF_analysis has not been called.
NoBandwidth == [kind |-> "none", ref_idx |-> 0, pair |-> 0, result |-> <<>>]

BandwidthIdle ==
    /\ ssrf_frequency = <<>> /\ s21 = <<>>
    /\ reference_frequency = 0 /\ drop_levels = 0
    /\ ssrf = NoBandwidth

\* read_spectrum has not been called.
NoSweep == [kind |-> "none", start_idx |-> 0, head |-> <<>>, data |-> <<>>]

SweepIdle == sweep_file = <<>> /\ sweep = NoSweep

\* read_ssrf has not been called.
NoParams == [kind |-> "none", raised_by |-> "", result |-> <<>>]

SsrfIdle == ssrf_file = <<>> /\ params = NoParams

\* A fresh database and no call of insert_dut.
DutIdle == dut_rows = {} /\ dut_committed = {} /\ dut_calls = <<>>

\* The five tables the import writes to, without rows.
NoRows ==
    [DUT |-> {}, MeasurementSessions |-> {}, ExperimentalConditions |-> {},
     MeasurementData |-> {}, DataInfo |-> {}]

\* import_measurement_folder has not been called.
NoImport ==
    [pc |-> "idle", i |-> 0, move_path |-> <<>>, committed |-> FALSE,
     collected |-> 0, error |-> ""]

ImportIdle ==
    /\ imp_input = [n |-> 0, fails_at |-> 0, fail_point |-> "", stuck |-> {},
                    prior |-> FALSE]
    /\ imp = NoImport
    /\ imp_db = [rows |-> NoRows, committed |-> NoRows]
    /\ imp_fs = [files |-> {}, dirs |-> {}]
    /\ pool = <<>>

\* parse_folder has not been called.
NoScan == [status |-> "idle", exts_left |-> {}, pending |-> {}, error |-> ""]

FolderIdle ==
    /\ folder_exists = FALSE
    /\ folder = {}
    /\ scan = NoScan
    /\ valid_files = <<>>
    /\ invalid_files = <<>>

InitPrefix ==
    /\ parser \in Parsers
    /\ filename \in PrefixInputs
    /\ outcome = NoCall
    /\ FolderIdle
    /\ ValleysIdle
    /\ BandwidthIdle
    /\ SweepIdle
    /\ SsrfIdle
    /\ DutIdle
    /\ ImportIdle

InitSuffix ==
    /\ parser \in Parsers
    /\ \E toks \in TokenLists : filename = SuffixInput(parser, toks)
    /\ outcome = NoCall
    /\ FolderIdle
    /\ ValleysIdle
    /\ BandwidthIdle
    /\ SweepIdle
    /\ SsrfIdle
    /\ DutIdle
    /\ ImportIdle

\* Longer suffixes over fewer tokens: the two markers, a tag and a number
WalkVocabulary == { <<"S", "M", "U">>, <<"a", "r", "g">>, <<"p", "n">>, <<"1">> }

MaxWalk == 6

WalkLists == UNION { [1..k -> WalkVocabulary] : k \in 0..MaxWalk }

InitWalk ==
    /\ parser \in Parsers
    /\ \E toks \in WalkLists : filename = SuffixInput(parser, toks)
    /\ outcome = NoCall
    /\ FolderIdle
    /\ ValleysIdle
    /\ BandwidthIdle
    /\ SweepIdle
    /\ SsrfIdle
    /\ DutIdle
    /\ ImportIdle

CallParseFilename ==
    /\ outcome.kind = "none"
    /\ filename # <<>>
    /\ outcome' = parse_filename(parser, filename)
    /\ UNCHANGED <<parser, filename, folderVars, valleyVars,
                   bandVars,
                   sweepVars,
                   ssrfVars,
                   dutVars,
                   importVars>>

NextParse == CallParseFilename

SpecPrefix == InitPrefix /\ [][NextParse]_vars

SpecSuffix == InitSuffix /\ [][NextParse]_vars

SpecWalk == InitWalk /\ [][NextParse]_vars


(***************************************************************************)
(* parse_folder                                                            *)
(*                                                                         *)
(* The two loops run one file per step.  SUPPORTED_EXTENSIONS is a Python  *)
(* set and glob follows the directory's order, so the extensions and the   *)
(* files of one extension come in any order.                               *)
(***************************************************************************)
\* Files a folder may hold: names of either grammar, a name that matches no
\* grammar, names whose suffix has a token without a number or a block cut
\* short, and a file of another type
FolderFiles ==
    { <<"S", "P", "C", "M", "_", "W", "0", "0", "1", "_", "D", "1", "_", "d", "i", "e", "2", "_", "C", "1", "_", "D", "e", "v", "1", "_", "2", "5", "C", "_", "r", "e", "p", "1", "_", "c", "h", "_", "1", "_", "2", "_", "-", "1", "0", "d", "B", "m", "_", "S", "M", "U", "_", "p", "n", "_", "1", "_", "9", "0", "0", "m", "V", ".", "c", "s", "v">>,
      <<"S", "P", "C", "M", "_", "W", "0", "0", "1", "_", "D", "1", "_", "d", "i", "e", "2", "_", "C", "1", "_", "D", "e", "v", "1", "_", "2", "5", "C", "_", "r", "e", "p", "1", "_", "c", "h", "_", "1", "_", "2", "_", "-", "1", "0", "d", "B", "m", ".", "t", "x", "t">>,
      <<"D", "C", "I", "V", "_", "P", "I", "C", "9", "-", "F", "P", "N", "3", "_", "D", "O", "E", "1", "_", "M", "R", "M", "1", "5", "8", "_", "d", "i", "e", "1", "_", "1", "_", "2", "5", "C", "_", "#", "1", "_", "D", "4", "_", "c", "h", "_", "9", "_", "9", "_", "5", "d", "B", "m", "_", "S", "M", "U", "_", "p", "n", "_", "1", "_", "9", "0", "0", "m", "V", ".", "c", "s", "v">>,
      <<"n", "o", "t", "e", "s", ".", "t", "x", "t">>,
      <<"S", "P", "C", "M", "_", "W", "0", "0", "1", "_", "D", "1", "_", "d", "i", "e", "2", "_", "C", "1", "_", "D", "e", "v", "1", "_", "2", "5", "C", "_", "r", "e", "p", "1", "_", "c", "h", "_", "1", "_", "2", "_", "-", "1", "0", "d", "B", "m", "_", "p", "n", ".", "c", "s", "v">>,
      <<"D", "C", "I", "V", "_", "P", "I", "C", "9", "-", "F", "P", "N", "3", "_", "D", "O", "E", "1", "_", "M", "R", "M", "1", "5", "8", "_", "d", "i", "e", "1", "_", "1", "_", "2", "5", "C", "_", "#", "1", "_", "D", "4", "_", "c", "h", "_", "9", "_", "9", "_", "5", "d", "B", "m", "_", "p", "n", ".", "c", "s", "v">>,
      <<"S", "P", "C", "M", "_", "W", "0", "0", "1", "_", "D", "1", "_", "d", "i", "e", "2", "_", "C", "1", "_", "D", "e", "v", "1", "_", "2", "5", "C", "_", "r", "e", "p", "1", "_", "c", "h", "_", "1", "_", "2", "_", "-", "1", "0", "d", "B", "m", "_", "S", "M", "U", "_", "p", "n", ".", "s", "2", "p">>,
      <<"D", "C", "I", "V", "_", "P", "I", "C", "9", "-", "F", "P", "N", "3", "_", "D", "O", "E", "1", "_", "M", "R", "M", "1", "5", "8", "_", "d", "i", "e", "1", "_", "1", "_", "2", "5", "C", "_", "#", "1", "_", "D", "4", "_", "c", "h", "_", "9", "_", "9", "_", "5", "d", "B", "m", "_", "S", "M", "U", "_", "p", "n", ".", "s", "2", "p">>,
      <<"r", "e", "a", "d", "m", "e", ".", "m", "d">> }

MaxFiles == 3

Folders == {fs \in SUBSET FolderFiles : Cardinality(fs) <= MaxFiles}

\* folder.glob("*" + ext): the files whose name ends with ext
Glob(fs, ext) == {f \in fs : EndsWith(f, ext)}

InitFolder ==
    /\ parser \in Parsers
    /\ filename = <<>>
    /\ outcome = NoCall
    /\ folder_exists \in BOOLEAN
    /\ folder \in (IF folder_exists THEN Folders ELSE {{}})
    /\ scan = NoScan
    /\ valid_files = <<>>
    /\ invalid_files = <<>>
    /\ ValleysIdle
    /\ BandwidthIdle
    /\ SweepIdle
    /\ SsrfIdle
    /\ DutIdle
    /\ ImportIdle

\* parse_folder is called: a missing folder raises FileNotFoundError.
ParseFolderCall ==
    /\ scan.status = "idle"
    /\ scan' = IF folder_exists
               THEN [status |-> "scanning", exts_left |-> SUPPORTED_EXTENSIONS,
                     pending |-> {}, error |-> ""]
               ELSE [NoScan EXCEPT !.status = "raised",
                                   !.error = "FileNotFoundError"]
    /\ UNCHANGED <<parser, parseVars, folder_exists, folder,
                   valid_files, invalid_files, valleyVars,
                   bandVars,
                   sweepVars,
                   ssrfVars,
                   dutVars,
                   importVars>>

\* for ext in SUPPORTED_EXTENSIONS: the next extension's files are listed.
ParseFolderNextExt ==
    /\ scan.status = "scanning" /\ scan.pending = {}
    /\ \E ext \in scan.exts_left :
          scan' = [scan EXCEPT !.exts_left = @ \ {ext},
                               !.pending = Glob(folder, ext)]
    /\ UNCHANGED <<parser, parseVars, folder_exists, folder,
                   valid_files, invalid_files, valleyVars,
                   bandVars,
                   sweepVars,
                   ssrfVars,
                   dutVars,
                   importVars>>

\* One file of the inner loop: parsed and kept, or listed as invalid on a
\* ValueError; any other exception leaves parse_folder.
ParseFolderFile ==
    /\ scan.status = "scanning"
    /\ \E f \in scan.pending :
          LET meta == parse_filename(parser, f)
          IN  CASE meta.kind = "ok" ->
                     /\ valid_files' = (f :> meta) @@ valid_files
                     /\ scan' = [scan EXCEPT !.pending = @ \ {f}]
                     /\ UNCHANGED invalid_files
                [] meta.kind = "ValueError" ->
                     /\ invalid_files' = Append(invalid_files, f)
                     /\ scan' = [scan EXCEPT !.pending = @ \ {f}]
                     /\ UNCHANGED valid_files
                [] OTHER ->
                     /\ scan' = [scan EXCEPT !.status = "raised",
                                             !.error = meta.kind]
                     /\ UNCHANGED <<valid_files, invalid_files>>
    /\ UNCHANGED <<parser, parseVars, folder_exists, folder, valleyVars,
                   bandVars,
                   sweepVars,
                   ssrfVars,
                   dutVars,
                   importVars>>

\* return valid_files, invalid_files
ParseFolderReturn ==
    /\ scan.status = "scanning" /\ scan.pending = {} /\ scan.exts_left = {}
    /\ scan' = [scan EXCEPT !.status = "returned"]
    /\ UNCHANGED <<parser, parseVars, folder_exists, folder,
                   valid_files, invalid_files, valleyVars,
                   bandVars,
                   sweepVars,
                   ssrfVars,
                   dutVars,
                   importVars>>

NextFolder ==
    \/ ParseFolderCall
    \/ ParseFolderNextExt
    \/ ParseFolderFile
    \/ ParseFolderReturn

SpecFolder == InitFolder /\ [][NextFolder]_vars

(***************************************************************************)
(* MRM_SPCM_analysis                                                       *)
(*                                                                         *)
(* Samples are integers (loss in dB, wavelength in nm).  The baseline is   *)
(* fitted with baseline_order = 0, for which the least-squares polynomial  *)
(* is the mean of loss; so that the mean stays an integer every level is   *)
(* kept multiplied by the sample count n, and so is the prominence         *)
(* threshold it is compared with.  Positions are 1-based.                  *)
(***************************************************************************)
MIN_SAMPLES == 10

PROMINENCE == 2

DISTANCE == 5

RECURSIVE Sum(_)
Sum(xs) == IF xs = <<>> THEN 0 ELSE xs[1] + Sum(Tail(xs))

Negate(xs) == [k \in 1..Len(xs) |-> 0 - xs[k]]

Min2(a, b) == IF a <= b THEN a ELSE b

Max2(a, b) == IF a >= b THEN a ELSE b

Abs(a) == IF a >= 0 THEN a ELSE 0 - a

\* Seeded fault: the sample-count check lets nine samples through.
InputError_OffByOne(w, l) ==
    IF Len(w) # Len(l) THEN "length"
    ELSE IF Len(w) < MIN_SAMPLES - 1 THEN "few"
    ELSE ""

\* The two input checks: which of them raises ValueError ("" for neither).
InputError(w, l) ==
    IF Len(w) # Len(l) THEN "length"
    ELSE IF Len(w) < MIN_SAMPLES THEN "few"
    ELSE ""

\* loss - baseline(wavelength), times n
LossLevel(l) == [k \in 1..Len(l) |-> Len(l) * l[k] - Sum(l)]

\* scipy _local_maxima_1d: a sample (or the middle of a flat run of equal
\* samples) higher than both its neighbours; the first and the last sample
\* are never maxima.  i is the position the scan stands at.
RECURSIVE PlateauEnd(_, _, _)
PlateauEnd(x, i, a) ==
    IF a < Len(x) /\ x[a] = x[i] THEN PlateauEnd(x, i, a + 1) ELSE a

RECURSIVE LocalMaximaFrom(_, _)
LocalMaximaFrom(x, i) ==
    IF i >= Len(x) THEN <<>>
    ELSE IF x[i - 1] < x[i]
         THEN LET a == PlateauEnd(x, i, i + 1)
              IN  IF x[a] < x[i]
                  THEN <<(i + a - 1) \div 2>> \o LocalMaximaFrom(x, a + 1)
                  ELSE LocalMaximaFrom(x, i + 1)
         ELSE LocalMaximaFrom(x, i + 1)

LocalMaxima(x) == LocalMaximaFrom(x, 2)

\* scipy _select_by_peak_distance walks the peaks from the highest to the
\* lowest (np.argsort of the heights, whose order among equal heights is
\* not fixed) and drops every peak closer than distance to a kept one.
\* order is the walk: the indices into peaks, highest first.
ProcessingOrders(x, peaks) ==
    LET m == Len(peaks)
    IN  {o \in [1..m -> 1..m] :
            /\ \A a, b \in 1..m : a # b => o[a] # o[b]
            /\ \A a, b \in 1..m : a < b => x[peaks[o[a]]] >= x[peaks[o[b]]]}

\* Seeded fault: a peak exactly dist samples from a kept one is dropped too.
RECURSIVE Suppress_AtDistance(_, _, _, _)
Suppress_AtDistance(peaks, order, keep, dist) ==
    IF order = <<>> THEN keep
    ELSE LET j == Head(order)
         IN  IF j \notin keep THEN Suppress_AtDistance(peaks, Tail(order), keep, dist)
             ELSE Suppress_AtDistance(peaks, Tail(order),
                           {k \in keep :
                               k = j \/ Abs(peaks[k] - peaks[j]) > dist},
                           dist)

RECURSIVE Suppress(_, _, _, _)
Suppress(peaks, order, keep, dist) ==
    IF order = <<>> THEN keep
    ELSE LET j == Head(order)
         IN  IF j \notin keep THEN Suppress(peaks, Tail(order), keep, dist)
             ELSE Suppress(peaks, Tail(order),
                           {k \in keep :
                               k = j \/ Abs(peaks[k] - peaks[j]) >= dist},
                           dist)

\* The entries of seq whose index is in keep, in order.
RECURSIVE Select(_, _, _)
Select(seq, keep, k) ==
    IF k > Len(seq) THEN <<>>
    ELSE (IF k \in keep THEN <<seq[k]>> ELSE <<>>) \o Select(seq, keep, k + 1)

\* scipy _peak_prominences (wlen unset): the peak's height above the higher
\* of the two lowest points between it and the next higher sample, or the
\* array's end, on each side.
RECURSIVE LeftMin(_, _, _, _)
LeftMin(x, p, i, cur) ==
    IF i < 1 \/ x[i] > x[p] THEN cur
    ELSE LeftMin(x, p, i - 1, Min2(cur, x[i]))

RECURSIVE RightMin(_, _, _, _)
RightMin(x, p, i, cur) ==
    IF i > Len(x) \/ x[i] > x[p] THEN cur
    ELSE RightMin(x, p, i + 1, Min2(cur, x[i]))

peak_prominences(x, p) ==
    x[p] - Max2(LeftMin(x, p, p, x[p]), RightMin(x, p, p, x[p]))

\* Seeded fault: the peaks come back in the order of the distance walk,
\* highest first, not by position.
find_peaks_ByHeight(x, prominence, dist, order) ==
    LET peaks == LocalMaxima(x)
        keep  == Suppress(peaks, order, 1..Len(peaks), dist)
        kept  == {k \in keep : peak_prominences(x, peaks[k]) >= prominence}
        walk  == Select(order, {j \in 1..Len(order) : order[j] \in kept}, 1)
    IN  [k \in 1..Len(walk) |-> peaks[walk[k]]]

\* find_peaks(x, prominence=, distance=): local maxima, then the distance
\* condition, then the prominence condition.
find_peaks(x, prominence, dist, order) ==
    LET peaks == LocalMaxima(x)
        near  == Select(peaks, Suppress(peaks, order, 1..Len(peaks), dist), 1)
    IN  Select(near,
               {k \in 1..Len(near) : peak_prominences(x, near[k]) >= prominence},
               1)

\* Seeded fault: a single valley counts as enough.
TooFewValleys_One(valley_idx) == Len(valley_idx) < 1

\* if len(valley_idx) < 2:
TooFewValleys(valley_idx) == Len(valley_idx) < 2

\* The dict returned when too few valleys were found.
EmptyResult ==
    [f \in {"Extinction Ratio", "FSRnm", "FSRGHz", "FWHMnm", "FWHMGHz",
            "Q factor", "valley_wavelength", "valley_frequency",
            "valley_loss"} |->
        <<<<>>, CASE f \in {"Extinction Ratio", "valley_loss"} -> "dB"
                  [] f \in {"FSRnm", "FWHMnm", "valley_wavelength"} -> "nm"
                  [] f \in {"FSRGHz", "FWHMGHz"} -> "GHz"
                  [] f = "valley_frequency" -> "THz"
                  [] OTHER -> "">>]

\* np.nan, and a number, as entries of a float array
NaN == [nan |-> TRUE, v |-> 0]

Num(v) == [nan |-> FALSE, v |-> v]

\* np.nanmax of a column of two entries
NanMax(a, b) ==
    IF a.nan THEN b.v ELSE IF b.nan THEN a.v ELSE Max2(a.v, b.v)

\* FSRnm: the distances between neighbouring valleys, stacked as the row
\* "to the next valley" (NaN at the last) over the row "to the previous
\* valley" (NaN at the first), and the larger of the two in each column.
FSRnm(wx) ==
    LET m    == Len(wx)
        d    == [k \in 1..(m - 1) |-> Num(wx[k + 1] - wx[k])]
        next == d \o <<NaN>>
        prev == <<NaN>> \o d
    IN  [k \in 1..m |-> NanMax(next[k], prev[k])]

\* Seeded fault: the row of the smaller entry is chosen.
NanArgMax_Smaller(a, b) ==
    IF a.nan THEN 1 ELSE IF b.nan THEN 0 ELSE IF b.v < a.v THEN 1 ELSE 0

\* np.nanargmax of a column of two entries: the row of the larger one, the
\* upper row (0) when they are equal.
NanArgMax(a, b) ==
    IF a.nan THEN 1 ELSE IF b.nan THEN 0 ELSE IF b.v > a.v THEN 1 ELSE 0

FSRidx(wx) ==
    LET m    == Len(wx)
        d    == [k \in 1..(m - 1) |-> Num(wx[k + 1] - wx[k])]
        next == d \o <<NaN>>
        prev == <<NaN>> \o d
    IN  [k \in 1..m |-> NanArgMax(next[k], prev[k])]

\* A fraction num/den, den > 0.
Rat(n, d) == [num |-> n, den |-> d]

RatEq(a, b) == a.num * b.den = b.num * a.den

RatLess(a, b) == a.num * b.den < b.num * a.den

RatSub(a, b) == Rat(a.num * b.den - b.num * a.den, a.den * b.den)

\* Seeded fault: the array read one position further than asked.
TakeAt_Shifted(seq, idx) == [k \in 1..Len(idx) |-> seq[idx[k] + 1]]

\* seq[idx] for an index array idx
TakeAt(seq, idx) == [k \in 1..Len(idx) |-> seq[idx[k]]]

\* frequency = 299792.458 / wavelength, kept as a multiple of 299792.458:
\* the fraction 1/wavelength.
Frequency(w) == [k \in 1..Len(w) |-> Rat(1, w[k])]

\* FSRGHz: the frequency steps between neighbouring valleys, stacked like
\* FSRnm, and in each column the row that FSRidx chose.
FSRGHz(fx, idx) ==
    LET m    == Len(fx)
        d    == [k \in 1..(m - 1) |-> Num(RatSub(fx[k], fx[k + 1]))]
        next == d \o <<NaN>>
        prev == <<NaN>> \o d
    IN  [k \in 1..m |-> IF idx[k] = 0 THEN next[k] ELSE prev[k]]

\* Ty = 10 ** (loss_level / 10) of a level of l dB, in hundredths.  The
\* table is read at loss, not at loss_level: the two differ by the constant
\* baseline, which multiplies every Ty by one positive factor and leaves
\* the widths below unchanged.
LinearPower(l) ==
    CASE l >= 0   -> 100
      [] l = 0 - 1 -> 79
      [] l = 0 - 2 -> 63
      [] l = 0 - 3 -> 50
      [] l = 0 - 4 -> 40
      [] l = 0 - 5 -> 32
      [] l = 0 - 6 -> 25
      [] l = 0 - 7 -> 20
      [] l = 0 - 8 -> 16
      [] l = 0 - 9 -> 13
      [] OTHER     -> 10

Ty(l) == [k \in 1..Len(l) |-> LinearPower(l[k])]

\* The bases of scipy _peak_prominences: on each side the lowest point
\* reached before a sample higher than the peak, the one nearest the peak
\* when several are as low.
RECURSIVE LeftBase(_, _, _, _)
LeftBase(x, p, i, base) ==
    IF i < 1 \/ x[i] > x[p] THEN base
    ELSE LeftBase(x, p, i - 1, IF x[i] < x[base] THEN i ELSE base)

RECURSIVE RightBase(_, _, _, _)
RightBase(x, p, i, base) ==
    IF i > Len(x) \/ x[i] > x[p] THEN base
    ELSE RightBase(x, p, i + 1, IF x[i] < x[base] THEN i ELSE base)

\* scipy _peak_widths at rel_height = 0.5.  Heights are doubled so that the
\* evaluation height x[p] - prominence / 2 stays an integer; the result is
\* the width in samples, as a fraction.
RECURSIVE WalkLeft(_, _, _, _)
WalkLeft(x, h2, i, i_min) ==
    IF i_min < i /\ h2 < 2 * x[i] THEN WalkLeft(x, h2, i - 1, i_min) ELSE i

RECURSIVE WalkRight(_, _, _, _)
WalkRight(x, h2, i, i_max) ==
    IF i < i_max /\ h2 < 2 * x[i] THEN WalkRight(x, h2, i + 1, i_max) ELSE i

peak_widths(x, p) ==
    LET h2    == 2 * x[p] - peak_prominences(x, p)
        il    == WalkLeft(x, h2, p, LeftBase(x, p, p, p))
        ir    == WalkRight(x, h2, p, RightBase(x, p, p, p))
        left  == IF 2 * x[il] < h2
                 THEN Rat(il * (2 * x[il + 1] - 2 * x[il]) + (h2 - 2 * x[il]),
                          2 * x[il + 1] - 2 * x[il])
                 ELSE Rat(il, 1)
        right == IF 2 * x[ir] < h2
                 THEN Rat(ir * (2 * x[ir - 1] - 2 * x[ir]) - (h2 - 2 * x[ir]),
                          2 * x[ir - 1] - 2 * x[ir])
                 ELSE Rat(ir, 1)
    IN  RatSub(right, left)

\* np.median: the middle entry of the sorted array, or the two middle
\* entries, whose mean it is, when the length is even.
KthSmallest(xs, k) ==
    LET i == CHOOSE j \in 1..Len(xs) :
                /\ Cardinality({q \in 1..Len(xs) : xs[q] < xs[j]}) < k
                /\ k <= Cardinality({q \in 1..Len(xs) : xs[q] <= xs[j]})
    IN  xs[i]

Median(xs) ==
    [lo |-> KthSmallest(xs, (Len(xs) + 1) \div 2),
     hi |-> KthSmallest(xs, Len(xs) \div 2 + 1)]

\* The same for an array of fractions.
KthSmallestRat(xs, k) ==
    LET i == CHOOSE j \in 1..Len(xs) :
                /\ Cardinality({q \in 1..Len(xs) : RatLess(xs[q], xs[j])}) < k
                /\ k <= Cardinality({q \in 1..Len(xs) : ~RatLess(xs[j], xs[q])})
    IN  xs[i]

MedianRat(xs) ==
    [lo |-> KthSmallestRat(xs, (Len(xs) + 1) \div 2),
     hi |-> KthSmallestRat(xs, Len(xs) \div 2 + 1)]

Diff(xs) == [k \in 1..(Len(xs) - 1) |-> xs[k + 1] - xs[k]]

\* wavelength_spacing = np.median(np.diff(wavelength))
wavelength_spacing(w) == Median(Diff(w))

\* frequency_spacing = -np.median(np.diff(frequency)): the median of the
\* steps frequency[k] - frequency[k+1]
frequency_spacing(f) ==
    MedianRat([k \in 1..(Len(f) - 1) |-> RatSub(f[k], f[k + 1])])

\* The dict of the normal return.  Extinction Ratio is in dB times n;
\* valley_frequency and FSRGHz are multiples of 299792.458; FWHMnm and
\* FWHMGHz are kept as the two factors of the product (the width in samples
\* and the spacing), Q factor as the two operands of the division.
Features(w, l, level, valley_idx) ==
    LET m         == Len(valley_idx)
        frequency == Frequency(w)
        wx        == TakeAt(w, valley_idx)
        fx        == TakeAt(frequency, valley_idx)
        widths    == [k \in 1..m |-> peak_widths(Negate(Ty(l)), valley_idx[k])]
        FWHMnm    == [k \in 1..m |->
                        [width |-> widths[k], spacing |-> wavelength_spacing(w)]]
        FWHMGHz   == [k \in 1..m |->
                        [width |-> widths[k],
                         spacing |-> frequency_spacing(frequency)]]
    IN  [f \in {"Extinction Ratio", "FSRnm", "FSRGHz", "FWHMnm", "FWHMGHz",
                "Q factor", "valley_wavelength", "valley_frequency"} |->
            CASE f = "Extinction Ratio" ->
                   <<[k \in 1..m |->
                        0 - peak_prominences(Negate(level), valley_idx[k])], "dB">>
              [] f = "FSRnm" -> <<FSRnm(wx), "nm">>
              [] f = "FSRGHz" -> <<FSRGHz(fx, FSRidx(wx)), "GHz">>
              [] f = "FWHMnm" -> <<FWHMnm, "nm">>
              [] f = "FWHMGHz" -> <<FWHMGHz, "GHz">>
              [] f = "Q factor" ->
                   <<[k \in 1..m |-> [num |-> wx[k], den |-> FWHMnm[k]]], "">>
              [] f = "valley_wavelength" -> <<wx, "nm">>
              [] OTHER -> <<fx, "THz">>]

\* MRM_SPCM_analysis(wavelength, loss, distance=dist, baseline_order=0),
\* prominence left at its default.  kind is "ok" for
\* a return and the exception's type for a raise; steps lists the stages
\* that ran after the input checks; shape tells a bare dict from the tuple
\* (dict, name, version).
MRM_SPCM_analysis(w, l, dist, order) ==
    LET level      == LossLevel(l)
        valley_idx == find_peaks(Negate(level), Len(l) * PROMINENCE,
                                 dist, order)
    IN  IF InputError(w, l) # ""
        THEN [NoAnalysis EXCEPT !.kind = "ValueError"]
        ELSE IF TooFewValleys(valley_idx)
        THEN [kind |-> "ok", steps |-> <<"frequency", "baseline", "find_peaks">>,
              valley_idx |-> valley_idx, shape |-> "dict",
              result |-> EmptyResult]
        ELSE IF Len(valley_idx) < 2
        THEN \* np.nanargmax raises on the all-NaN column of a single valley
             [kind |-> "ValueError",
              steps |-> <<"frequency", "baseline", "find_peaks">>,
              valley_idx |-> valley_idx, shape |-> "", result |-> <<>>]
        ELSE [kind |-> "ok",
              steps |-> <<"frequency", "baseline", "find_peaks", "features">>,
              valley_idx |-> valley_idx, shape |-> "tuple",
              result |-> Features(w, l, level, valley_idx)]

(***************************************************************************)
(* Inputs of MRM_SPCM_analysis: a flat trace with up to MaxDips dips, each *)
(* 1 dB deep (below the prominence threshold) and one sample wide, or 3 dB *)
(* deep (above it) and one or two samples wide, on a 1 nm grid; dips may   *)
(* overlap, and the two arrays may differ in length.                       *)
(***************************************************************************)
MaxSamples == 11

MaxDips == 2

SampleCounts == (MIN_SAMPLES - 1)..MaxSamples

Dips(n) ==
    {d \in [at : 1..n, width : {1, 2}, depth : {1, 3}] :
        d.width = 2 => d.depth = 3}

Covers(dip, k) == dip.at <= k /\ k < dip.at + dip.width

RECURSIVE DipSum(_, _)
RECURSIVE DipSets(_, _)
DipSum(dips, k) ==
    IF dips = {} THEN 0
    ELSE LET dip == CHOOSE d \in dips : TRUE
         IN  (IF Covers(dip, k) THEN dip.depth ELSE 0) + DipSum(dips \ {dip}, k)

Trace(n, dips) == [k \in 1..n |-> 0 - DipSum(dips, k)]

DipSets(n, m) ==
    IF m = 0 THEN {{}}
    ELSE UNION {{ds \cup {d} : d \in Dips(n)} : ds \in DipSets(n, m - 1)}

Traces(n) == {Trace(n, dips) : dips \in DipSets(n, MaxDips)}

Grid(n) == [k \in 1..n |-> 1500 + k]

InitValleys ==
    /\ parser = "main"
    /\ filename = <<>>
    /\ outcome = NoCall
    /\ FolderIdle
    /\ \E nw \in SampleCounts, nl \in SampleCounts :
          /\ wavelength = Grid(nw)
          /\ loss \in Traces(nl)
    /\ distance = DISTANCE
    /\ analysis = NoAnalysis
    /\ BandwidthIdle
    /\ SweepIdle
    /\ SsrfIdle
    /\ DutIdle
    /\ ImportIdle

CallAnalysis ==
    /\ analysis.kind = "none"
    /\ wavelength # <<>>
    /\ \E order \in ProcessingOrders(Negate(LossLevel(loss)),
                                     LocalMaxima(Negate(LossLevel(loss)))) :
          analysis' = MRM_SPCM_analysis(wavelength, loss, distance, order)
    /\ UNCHANGED <<parser, parseVars, folderVars, wavelength, loss, distance,
                   bandVars,
                   sweepVars,
                   ssrfVars,
                   dutVars,
                   importVars>>

NextValleys == CallAnalysis

SpecValleys == InitValleys /\ [][NextValleys]_vars

(***************************************************************************)
(* Traces with up to CombDips dips on CombSamples samples, analysed at the *)
(* default distance and at a distance of 2 samples, so that three and more *)
(* valleys are accepted and a valley has a neighbour on either side.       *)
(***************************************************************************)
CombSamples == 10

CombDips == 3

Distances == {DISTANCE, 2}

\* The sets of at most m dips that lie at or after sample from, left to
\* right with at least one sample between two dips
RECURSIVE CombsFrom(_, _, _)
CombsFrom(n, m, from) ==
    IF m = 0 \/ from > n THEN {{}}
    ELSE {{}} \cup UNION {{{d} \cup rest : rest \in CombsFrom(n, m - 1, d.at + d.width + 1)} :
                           d \in {x \in Dips(n) : x.at >= from}}

InitComb ==
    /\ parser = "main"
    /\ filename = <<>>
    /\ outcome = NoCall
    /\ FolderIdle
    /\ wavelength = Grid(CombSamples)
    /\ loss \in {Trace(CombSamples, dips) : dips \in CombsFrom(CombSamples, CombDips, 1)}
    /\ distance \in Distances
    /\ analysis = NoAnalysis
    /\ BandwidthIdle
    /\ SweepIdle
    /\ SsrfIdle
    /\ DutIdle
    /\ ImportIdle

SpecComb == InitComb /\ [][NextValleys]_vars

(***************************************************************************)
(* The same call on a wavelength axis in either sweep direction: the       *)
(* function takes the array as it comes and neither checks nor sorts it.   *)
(***************************************************************************)
Reversed(seq) == [k \in 1..Len(seq) |-> seq[Len(seq) + 1 - k]]

SweepDirections(n) == {Grid(n), Reversed(Grid(n))}

InitEitherWay ==
    /\ parser = "main"
    /\ filename = <<>>
    /\ outcome = NoCall
    /\ FolderIdle
    /\ wavelength \in SweepDirections(CombSamples)
    /\ loss \in {Trace(CombSamples, dips) : dips \in CombsFrom(CombSamples, MaxDips, 1)}
    /\ distance \in Distances
    /\ analysis = NoAnalysis
    /\ BandwidthIdle
    /\ SweepIdle
    /\ SsrfIdle
    /\ DutIdle
    /\ ImportIdle

SpecEitherWay == InitEitherWay /\ [][NextValleys]_vars

(***************************************************************************)
(* Traces of SlopeSamples samples whose first SlopeSpan samples lie at or  *)
(* below the zero level, by 3 or 4 dB, so that a valley can stand on a     *)
(* slope: deeper than its neighbour and yet less prominent.                *)
(***************************************************************************)
SlopeSamples == 10

SlopeSpan == 5

SlopeLevels == {0, 0 - 3, 0 - 4}

InitSlope ==
    /\ parser = "main"
    /\ filename = <<>>
    /\ outcome = NoCall
    /\ FolderIdle
    /\ wavelength = Grid(SlopeSamples)
    /\ \E dips \in [1..SlopeSpan -> SlopeLevels] :
          loss = [k \in 1..SlopeSamples |-> IF k <= SlopeSpan THEN dips[k] ELSE 0]
    /\ distance \in Distances
    /\ analysis = NoAnalysis
    /\ BandwidthIdle
    /\ SweepIdle
    /\ SsrfIdle
    /\ DutIdle
    /\ ImportIdle

SpecSlope == InitSlope /\ [][NextValleys]_vars

(***************************************************************************)
(* MRM_SSRF_analysis, with smooth_window below 3 (the default 0), so that  *)
(* smooth_s21 is s21.  Frequencies and levels are integers; an             *)
(* interpolated frequency is a fraction.                                   *)
(***************************************************************************)
DROP_LEVELS == 3

\* np.argmin: the first position of the smallest entry
ArgMin(xs) ==
    CHOOSE i \in 1..Len(xs) :
        /\ \A j \in 1..Len(xs) : xs[i] <= xs[j]
        /\ \A j \in 1..(i - 1) : xs[j] > xs[i]

\* ref_idx = np.argmin(np.abs(frequency - reference_frequency))
RefIdx(f, ref) == ArgMin([k \in 1..Len(f) |-> Abs(f[k] - ref)])

\* Seeded fault: the pair is taken without looking at the level.
Between_Any(s, t, k) == s[k] # s[k + 1]

\* between[k], for the pair of samples k and k+1 and the level t
Between(s, t, k) ==
    /\ (s[k] - t) * (s[k + 1] - t) <= 0
    /\ s[k] # s[k + 1]

\* inter_point[k], for a pair of unequal samples
inter_point(f, s, t, k) ==
    LET d == s[k + 1] - s[k]
        n == f[k] * d + (t - s[k]) * (f[k + 1] - f[k])
    IN  IF d > 0 THEN Rat(n, d) ELSE Rat(0 - n, 0 - d)

\* MRM_SSRF_analysis(frequency, s21, reference_frequency, drop_levels).
\* inter_point[between][0] is the first pair's entry, and an IndexError
\* when between is False everywhere.  pair tells which pair was used.
MRM_SSRF_analysis(f, s, ref, drop) ==
    LET ri    == RefIdx(f, ref)
        t     == s[ri] - drop
        pairs == {k \in 1..(Len(s) - 1) : Between(s, t, k)}
    IN  IF pairs = {}
        THEN [NoBandwidth EXCEPT !.kind = "IndexError", !.ref_idx = ri]
        ELSE LET k == CHOOSE q \in pairs : \A r \in pairs : q <= r
             IN  [kind |-> "ok", ref_idx |-> ri, pair |-> k,
                  result |-> [bandwidth |->
                      <<RatSub(inter_point(f, s, t, k), Rat(ref, 1)), "GHz">>]]

(***************************************************************************)
(* Inputs of MRM_SSRF_analysis: up to MaxPoints samples on an evenly or an *)
(* unevenly spaced ascending frequency grid, levels from a few dB values,  *)
(* a reference frequency on or between the grid points.                    *)
(***************************************************************************)
MaxPoints == 4

Levels == {0, 0 - 2, 0 - 3, 0 - 4, 0 - 6}

FrequencyGrids(n) == {[k \in 1..n |-> 2 * k], [k \in 1..n |-> k * k + 1]}

InitBandwidth ==
    /\ parser = "main"
    /\ filename = <<>>
    /\ outcome = NoCall
    /\ FolderIdle
    /\ ValleysIdle
    /\ \E n \in 2..MaxPoints :
          /\ ssrf_frequency \in FrequencyGrids(n)
          /\ s21 \in [1..n -> Levels]
          /\ reference_frequency \in 1..(2 * n)
    /\ drop_levels \in {DROP_LEVELS, 1}
    /\ ssrf = NoBandwidth
    /\ SweepIdle
    /\ SsrfIdle
    /\ DutIdle
    /\ ImportIdle

CallBandwidth ==
    /\ ssrf.kind = "none"
    /\ ssrf_frequency # <<>>
    /\ ssrf' = MRM_SSRF_analysis(ssrf_frequency, s21, reference_frequency,
                                 drop_levels)
    /\ UNCHANGED <<parser, parseVars, folderVars, valleyVars,
                   ssrf_frequency, s21, reference_frequency, drop_levels,
                   sweepVars,
                   ssrfVars,
                   dutVars,
                   importVars>>

NextBandwidth == CallBandwidth

SpecBandwidth == InitBandwidth /\ [][NextBandwidth]_vars

(***************************************************************************)
(* read_spectrum(path), start_idx and end_idx left at None.  The file is   *)
(* its sequence of lines; csv.reader turns a line into the list of its     *)
(* comma-separated cells (no line here has quotes) and an empty line into  *)
(* the empty list.  Rows are numbered from 1; start_idx = 0 stands for     *)
(* None.                                                                   *)
(***************************************************************************)
START_MIN == <<"=", "=", "=", " ", "M", "i", "n">>

START_AVERAGE == <<"=", "=", "=", " ", "A", "v", "e", "r", "a", "g", "e", " ", "I", "L", " ", "(", "T", "L", "S", " ", "0", ")", " ", "=", "=", "=">>

END_MUELLER == <<"=", "=", "=", " ", "M", "u", "e", "l", "l", "e", "r", " ", "R", "o", "w", " ", "1", " ", "(", "T", "L", "S", " ", "0", ")", " ", "=", "=", "=">>

HEADER_KEYS ==
    { <<"W", "a", "v", "e", "l", "e", "n", "g", "t", "h", "S", "t", "a", "r", "t">>,
      <<"W", "a", "v", "e", "l", "e", "n", "g", "t", "h", "S", "t", "o", "p">>,
      <<"W", "a", "v", "e", "l", "e", "n", "g", "t", "h", "S", "t", "e", "p">>,
      <<"S", "w", "e", "e", "p", "R", "a", "t", "e">> }

CsvRow(line) == IF line = <<>> THEN <<>> ELSE Split(line, ",")

\* cell in row, for a list row
InRow(cell, row) == \E k \in 1..Len(row) : row[k] = cell

\* tofloat(value): float(value), or np.nan when float raises.  The texts
\* float accepts are taken to be the plain decimals (optional sign, digits,
\* optional fraction); no cell here is written with an exponent or spaces.
tofloat(value) ==
    IF NumericUnit(value).matched /\ NumericUnit(value).number = value
    THEN Num(Float(value))
    ELSE NaN

\* Seeded fault: the end marker is not looked for.
IsEndMarker_Never(row) == FALSE

\* '=== Mueller Row 1 (TLS 0) ===' in row
IsEndMarker(row) == InRow(END_MUELLER, row)

\* if i > start_idx:
IsDataRow(i, start_idx) == i > start_idx

\* One pass of the loop body over row i; st holds start_idx, head, data and
\* status: "loop" while the loop runs, "done" after break, or the
\* exception raised.
SweepRow(st, i, row) ==
    IF st.start_idx = 0 /\ (InRow(START_MIN, row) \/ InRow(START_AVERAGE, row))
    THEN [st EXCEPT !.start_idx = i]
    ELSE IF IsEndMarker(row)
    THEN [st EXCEPT !.status = "done"]
    ELSE IF st.start_idx # 0
    THEN IF IsDataRow(i, st.start_idx)
         THEN [st EXCEPT !.data =
                  Append(@, [k \in 1..Len(row) |-> tofloat(row[k])])]
         ELSE st
    ELSE IF \E key \in HEADER_KEYS : InRow(key, row)
    THEN IF Len(row) < 3
         THEN [st EXCEPT !.status = "IndexError"]
         ELSE [st EXCEPT !.head =
                  [c \in DOMAIN @ \cup {row[1]} |->
                      IF c = row[1] THEN <<row[2], row[3]>> ELSE @[c]]]
    ELSE st

RECURSIVE SweepLoop(_, _, _)
SweepLoop(lines, i, st) ==
    IF i > Len(lines) \/ st.status # "loop" THEN st
    ELSE SweepLoop(lines, i + 1, SweepRow(st, i, CsvRow(lines[i])))

\* data = np.array(data, dtype=float); data[:,0] *= 1E9.  Rows of unequal
\* length make np.array raise ValueError; no row at all, or rows without a
\* cell, make the column index raise IndexError.  A value num / 10^exp
\* times 1E9 is num / 10^(exp - 9).
TimesE9(x) == IF x.nan THEN x ELSE Num([num |-> x.v.num, exp |-> x.v.exp - 9])

ToArray(data) ==
    IF \E a, b \in 1..Len(data) : Len(data[a]) # Len(data[b])
    THEN [kind |-> "ValueError", data |-> <<>>]
    ELSE IF data = <<>> \/ data[1] = <<>>
    THEN [kind |-> "IndexError", data |-> <<>>]
    ELSE [kind |-> "ok",
          data |-> [r \in 1..Len(data) |->
                       [k \in 1..Len(data[r]) |->
                           IF k = 1 THEN TimesE9(data[r][k]) ELSE data[r][k]]]]

read_spectrum(lines) ==
    LET st == SweepLoop(lines, 1, [start_idx |-> 0, head |-> <<>>,
                                   data |-> <<>>, status |-> "loop"])
    IN  IF st.status \notin {"loop", "done"}
        THEN [NoSweep EXCEPT !.kind = st.status, !.start_idx = st.start_idx]
        ELSE IF st.start_idx = 0
        THEN [NoSweep EXCEPT !.kind = "ValueError"]
        ELSE IF ToArray(st.data).kind # "ok"
        THEN [NoSweep EXCEPT !.kind = ToArray(st.data).kind,
                             !.start_idx = st.start_idx]
        ELSE [kind |-> "ok", start_idx |-> st.start_idx, head |-> st.head,
              data |-> ToArray(st.data).data]

(***************************************************************************)
(* Inputs of read_spectrum: files of up to MaxRows lines: the markers, a   *)
(* row that only begins like the "Min" marker, a header row, a header row  *)
(* cut short, data rows of two cells (one with a cell that is no number)   *)
(* and a data row of one cell.                                             *)
(***************************************************************************)
MaxRows == 4

SweepLines ==
    { START_MIN,
      START_AVERAGE,
      END_MUELLER,
      <<"=", "=", "=", " ", "M", "i", "n", " ", "I", "L", " ", "(", "T", "L", "S", " ", "0", ")", " ", "=", "=", "=">>,
      <<"W", "a", "v", "e", "l", "e", "n", "g", "t", "h", "S", "t", "a", "r", "t", ",", "1", ".", "5", ",", "u", "m">>,
      <<"S", "w", "e", "e", "p", "R", "a", "t", "e", ",", "4", "0">>,
      <<"1", ".", "5", ",", "-", "3">>,
      <<"2", ".", "5", ",", "x">>,
      <<"7">> }

SweepFiles == UNION {[1..n -> SweepLines] : n \in 1..MaxRows}

InitSweep ==
    /\ parser = "main"
    /\ filename = <<>>
    /\ outcome = NoCall
    /\ FolderIdle
    /\ ValleysIdle
    /\ BandwidthIdle
    /\ sweep_file \in SweepFiles
    /\ sweep = NoSweep
    /\ SsrfIdle
    /\ DutIdle
    /\ ImportIdle

CallReadSpectrum ==
    /\ sweep.kind = "none"
    /\ sweep_file # <<>>
    /\ sweep' = read_spectrum(sweep_file)
    /\ UNCHANGED <<parser, parseVars, folderVars, valleyVars, bandVars,
                   sweep_file,
                   ssrfVars,
                   dutVars,
                   importVars>>

NextSweep == CallReadSpectrum

SpecSweep == InitSweep /\ [][NextSweep]_vars

(***************************************************************************)
(* read_ssrf(path).  Lines and rows as for read_spectrum.                  *)
(***************************************************************************)
MIN_COLUMNS == 9

Whitespace == {" ", "\t"}

\* str.split() without argument: the runs of characters other than
\* whitespace
RECURSIVE SplitWhitespace(_)
SplitWhitespace(text) ==
    LET skipped == Drop(text, SpanLen(text, Whitespace))
        n       == IF skipped = <<>> THEN 0
                   ELSE CHOOSE k \in 1..Len(skipped) :
                           /\ \A j \in 1..k : skipped[j] \notin Whitespace
                           /\ k = Len(skipped) \/ skipped[k + 1] \in Whitespace
    IN  IF skipped = <<>> THEN <<>>
        ELSE <<Take(skipped, n)>> \o SplitWhitespace(Drop(skipped, n))

\* Seeded fault: a row with '#' is taken as a header row wherever it stands.
SsrfRow_HashAlwaysHeader(st, row) ==
    IF row = <<>> \/ row[1] = <<>> THEN st
    ELSE IF InRow("#", row[1])
    THEN [st EXCEPT !.in_header = FALSE]
    ELSE IF ~st.in_header
    THEN [st EXCEPT !.data =
             Append(@, LET row_data == SplitWhitespace(row[1])
                       IN  [k \in 1..Len(row_data) |-> tofloat(row_data[k])])]
    ELSE st

\* One pass of the loop body; st holds in_header and data.
SsrfRow(st, row) ==
    IF row = <<>> \/ row[1] = <<>> THEN st
    ELSE IF InRow("#", row[1]) /\ st.in_header
    THEN [st EXCEPT !.in_header = FALSE]
    ELSE IF ~st.in_header
    THEN [st EXCEPT !.data =
             Append(@, LET row_data == SplitWhitespace(row[1])
                       IN  [k \in 1..Len(row_data) |-> tofloat(row_data[k])])]
    ELSE st

RECURSIVE SsrfLoop(_, _, _)
SsrfLoop(lines, i, st) ==
    IF i > Len(lines) THEN st
    ELSE SsrfLoop(lines, i + 1, SsrfRow(st, CsvRow(lines[i])))

\* What np.array(data) makes of rows of unequal length depends on the numpy
\* at hand: ValueError since 1.24, before that a one-dimensional array of
\* lists.
RaggedArray == {"ValueError", "object"}

\* data.shape of np.array(data) for rows of equal length
Shape(data) ==
    IF data = <<>> THEN <<0>> ELSE <<Len(data), Len(data[1])>>

\* Seeded fault: the column check asks for one column less.
TooFewColumns_Eight(columns) == columns < MIN_COLUMNS - 1

\* if data.shape[1] < 9:
TooFewColumns(columns) == columns < MIN_COLUMNS

\* A value num / 10^exp divided by 1e9
DivE9(x) == IF x.nan THEN x ELSE Num([num |-> x.v.num, exp |-> x.v.exp + 9])

\* re + 1j * im as the pair of the real and the imaginary part.  The
\* product 1j * im has the real part 0 * im, so that a NaN im makes both
\* parts NaN.
Complex(re, im) == IF im.nan THEN <<NaN, NaN>> ELSE <<re, im>>

\* The rows of np.column_stack([freq, s11, s21, s12, s22])
Stack(data) ==
    [r \in 1..Len(data) |->
        [freq |-> DivE9(data[r][1]),
         s11  |-> Complex(data[r][2], data[r][3]),
         s21  |-> Complex(data[r][4], data[r][5]),
         s12  |-> Complex(data[r][6], data[r][7]),
         s22  |-> Complex(data[r][8], data[r][9])]]

read_ssrf(lines, ragged) ==
    LET data == SsrfLoop(lines, 1, [in_header |-> TRUE, data |-> <<>>]).data
    IN  IF \E a, b \in 1..Len(data) : Len(data[a]) # Len(data[b])
        THEN IF ragged = "ValueError"
             THEN [NoParams EXCEPT !.kind = "ValueError", !.raised_by = "np.array"]
             ELSE [NoParams EXCEPT !.kind = "IndexError", !.raised_by = "shape[1]"]
        ELSE IF Len(Shape(data)) < 2
        THEN [NoParams EXCEPT !.kind = "IndexError", !.raised_by = "shape[1]"]
        ELSE IF TooFewColumns(Shape(data)[2])
        THEN [NoParams EXCEPT !.kind = "ValueError", !.raised_by = "raise"]
        ELSE [kind |-> "ok", raised_by |-> "", result |-> Stack(data)]

(***************************************************************************)
(* Inputs of read_ssrf: files of up to MaxSsrfRows lines: the option line  *)
(* with "#", a comment line, an empty line, rows of nine fields (one with  *)
(* a field that is no number, one with a "#" in it), a row of three fields *)
(* and a row whose first cell is empty.                                    *)
(***************************************************************************)
MaxSsrfRows == 4

SsrfLines ==
    { <<"#", " ", "H", "z", " ", "S", " ", "R", "I", " ", "R", " ", "5", "0">>,
      <<"!", " ", "c", "o", "m", "m", "e", "n", "t">>,
      <<>>,
      <<"1", " ", "2", " ", "3", " ", "4", " ", "5", " ", "6", " ", "7", " ", "8", " ", "9">>,
      <<"2", " ", "2", " ", "3", " ", "4", " ", "5", " ", "6", " ", "7", " ", "8", " ", "x">>,
      <<"3", " ", "2", " ", "3">>,
      <<"4", " ", "2", " ", "3", " ", "4", " ", "5", " ", "6", " ", "7", " ", "8", " ", "9", " ", "#">>,
      <<",", "5", " ", "2", " ", "3", " ", "4", " ", "5", " ", "6", " ", "7", " ", "8", " ", "9">> }

SsrfFiles == UNION {[1..n -> SsrfLines] : n \in 1..MaxSsrfRows}

InitSsrf ==
    /\ parser = "main"
    /\ filename = <<>>
    /\ outcome = NoCall
    /\ FolderIdle
    /\ ValleysIdle
    /\ BandwidthIdle
    /\ SweepIdle
    /\ ssrf_file \in SsrfFiles
    /\ params = NoParams
    /\ DutIdle
    /\ ImportIdle

CallReadSsrf ==
    /\ params.kind = "none"
    /\ ssrf_file # <<>>
    /\ \E ragged \in RaggedArray : params' = read_ssrf(ssrf_file, ragged)
    /\ UNCHANGED <<parser, parseVars, folderVars, valleyVars, bandVars,
                   sweepVars, ssrf_file,
                   dutVars,
                   importVars>>

NextSsrf == CallReadSsrf

SpecSsrf == InitSsrf /\ [][NextSsrf]_vars

(***************************************************************************)
(* DatabaseAPI.insert_dut.  The DUT table is a set of rows; the table's    *)
(* definition (schema.sql) is not among the sources and is taken from the  *)
(* specification: DUT_id is the integer primary key that SQLite assigns,   *)
(* and the five identity columns carry a UNIQUE constraint.                *)
(***************************************************************************)
DUT_UNIQUE == {"wafer", "DOE", "die", "cage", "device"}

\* The rowid SQLite gives a new row of a table from which nothing was
\* deleted: one more than the largest in use.
NextRowId(rows) ==
    IF rows = {} THEN 1
    ELSE 1 + (CHOOSE n \in {r.DUT_id : r \in rows} :
                 \A r \in rows : r.DUT_id <= n)

\* Seeded fault: the conflict target leaves out the device column.
CONFLICT_TARGET_NoDevice == {"wafer", "DOE", "die", "cage"}

\* ON CONFLICT (wafer, DOE, die, cage, device)
CONFLICT_TARGET == {"wafer", "DOE", "die", "cage", "device"}

\* INSERT ... ON CONFLICT (...) DO UPDATE SET wafer = excluded.wafer
\* RETURNING DUT_id, on the table rows with the values vals: the statement
\* is refused unless the conflict target is a unique constraint of the
\* table; a row that agrees with vals on the target is updated (to the
\* same values) and returned; otherwise a row is inserted and returned.
Upsert(rows, vals) ==
    IF CONFLICT_TARGET # DUT_UNIQUE
    THEN [kind |-> "OperationalError", rows |-> rows, DUT_id |-> 0]
    ELSE IF \E r \in rows : \A c \in CONFLICT_TARGET : r[c] = vals[c]
    THEN LET old == CHOOSE r \in rows : \A c \in CONFLICT_TARGET : r[c] = vals[c]
         IN  [kind |-> "ok",
              rows |-> (rows \ {old}) \cup {[old EXCEPT !.wafer = vals.wafer]},
              DUT_id |-> old.DUT_id]
    ELSE LET new == [DUT_id |-> NextRowId(rows), wafer |-> vals.wafer,
                     DOE |-> vals.DOE, die |-> vals.die, cage |-> vals.cage,
                     device |-> vals.device]
         IN  [kind |-> "ok", rows |-> rows \cup {new}, DUT_id |-> new.DUT_id]

(***************************************************************************)
(* Inputs of insert_dut: up to MaxCalls calls with a few values for every  *)
(* column, committing or not.                                              *)
(***************************************************************************)
MaxCalls == 3

DutValues ==
    [wafer : {"W001", "W002"}, DOE : {"D1"}, die : {1, 2}, cage : {"C1"},
     device : {"Dev1", "Dev2"}]

InitDut ==
    /\ parser = "DatabaseAPI"
    /\ filename = <<>>
    /\ outcome = NoCall
    /\ FolderIdle
    /\ ValleysIdle
    /\ BandwidthIdle
    /\ SweepIdle
    /\ SsrfIdle
    /\ DutIdle
    /\ ImportIdle

\* insert_dut(wafer, doe, die, cage, device, commit)
InsertDut ==
    /\ Len(dut_calls) < MaxCalls
    /\ \E vals \in DutValues, commit \in BOOLEAN :
          LET done == Upsert(dut_rows, vals)
          IN  /\ dut_rows' = done.rows
              /\ dut_committed' = IF done.kind = "ok" /\ commit
                                  THEN done.rows ELSE dut_committed
              /\ dut_calls' = Append(dut_calls,
                     [vals |-> vals, commit |-> commit, kind |-> done.kind,
                      DUT_id |-> done.DUT_id])
    /\ UNCHANGED <<parser, parseVars, folderVars, valleyVars, bandVars,
                   sweepVars, ssrfVars,
                   importVars>>

NextDut == InsertDut

SpecDut == InitDut /\ [][NextDut]_vars

(***************************************************************************)
(* import_measurement_folder: the transaction and the file moves           *)
(*                                                                         *)
(* The valid files of the folder are numbered 1..n in the order of         *)
(* valid_files.  The call is followed from BEGIN on.  What the surroundings*)
(* decide is drawn at the start: which file (if any) makes the loop body   *)
(* raise and where, and which file cannot be moved.                        *)
(***************************************************************************)
MaxImportFiles == 5

max_workers == 4

\* wafer/doe/cage/device/die of file k: the files alternate between two DUTs
DutOf(k) == IF k % 2 = 1 THEN "Dev1" ELSE "Dev2"

\* file_info["repeat"] of file k
RepeatOf(k) == IF k = 3 THEN "2" ELSE "1"

\* session_name = folder.name + ("_#" + repeat if repeat != "1" else "")
SessionName(k) ==
    IF RepeatOf(k) # "1" THEN <<"folder", "_#", RepeatOf(k)>> ELSE <<"folder">>

\* filepath of file k, in the folder
Src(k) == [dir |-> <<"folder">>, name |-> k]

\* target_dir = target_root_path/wafer/doe/cage/device/die/session_name
TargetDir(k) == <<"MeasurementData", DutOf(k)>> \o SessionName(k)

\* dst = target_dir / filepath.name
Dst(k) == [dir |-> TargetDir(k), name |-> k]

\* The rows a call of insert_dut .. insert_measurement_data for file k leaves
\* in the open transaction: each statement is an upsert on its conflict
\* target, so a row is known by that target.
insert_dut(rows, k) ==
    [rows EXCEPT !.DUT = @ \cup {[device |-> DutOf(k)]}]

insert_measurement_session(rows, k) ==
    [rows EXCEPT !.MeasurementSessions =
        @ \cup {[DUT |-> DutOf(k), session_name |-> SessionName(k)]}]

insert_experimental_conditions(rows, k) ==
    [rows EXCEPT !.ExperimentalConditions =
        @ \cup {[session |-> <<DutOf(k), SessionName(k)>>,
                 key |-> "temperature", unit |-> "C"]}]

insert_measurement_data(rows, k) ==
    [rows EXCEPT !.MeasurementData =
        @ \cup {[session |-> <<DutOf(k), SessionName(k)>>,
                 file_path |-> Dst(k)]}]

insert_data_info(rows, k) ==
    [rows EXCEPT !.DataInfo =
        @ \cup {[data |-> Dst(k), key |-> key] :
                    key \in {"channel_in", "channel_out", "power"}}]

\* The statements of the loop body before read_spectrum is reached
InsertsBeforeRead(rows, k) ==
    insert_measurement_data(
        insert_experimental_conditions(
            insert_measurement_session(insert_dut(rows, k), k), k), k)

\* Seeded fault: the handler re-raises without rolling back.
ExceptHandler_NoRollback(db) == db

\* except Exception: self.conn.rollback(); raise  -- the open transaction is
\* dropped, what was committed stays.
ExceptHandler(db) == [db EXCEPT !.rows = db.committed]

\* The tables as an earlier import left them
PriorRows(prior) ==
    IF prior
    THEN [NoRows EXCEPT !.DUT = {[device |-> "Dev1"]},
                        !.MeasurementSessions =
                            {[DUT |-> "Dev1", session_name |-> <<"earlier">>]}]
    ELSE NoRows

InitImport ==
    /\ parser = "DatabaseAPI"
    /\ filename = <<>>
    /\ outcome = NoCall
    /\ FolderIdle
    /\ ValleysIdle
    /\ BandwidthIdle
    /\ SweepIdle
    /\ SsrfIdle
    /\ DutIdle
    /\ \E n \in 0..MaxImportFiles :
          /\ \E at \in 0..n :
                \E point \in {"mkdir", "read_spectrum"} :
                    \E stuck \in {{}} \cup {{k} : k \in 1..n} :
                        \E prior \in BOOLEAN :
                            /\ at = 0 => point = "mkdir"
                            /\ imp_input = [n |-> n, fails_at |-> at,
                                            fail_point |-> IF at = 0 THEN "" ELSE point,
                                            stuck |-> stuck, prior |-> prior]
                            /\ imp_db = [rows |-> PriorRows(prior),
                                         committed |-> PriorRows(prior)]
          /\ imp_fs = [files |-> {Src(k) : k \in 1..n}, dirs |-> {}]
    /\ imp = NoImport
    /\ pool = <<>>

\* self.conn.execute("BEGIN")
Begin ==
    /\ imp.pc = "idle"
    /\ imp' = [imp EXCEPT !.pc = "loop"]
    /\ UNCHANGED <<imp_input, imp_db, imp_fs, pool>>
    /\ UNCHANGED <<parser, parseVars, folderVars, valleyVars, bandVars,
                   sweepVars, ssrfVars, dutVars>>

\* One pass of the loop body that runs to its end
ImportFile ==
    /\ imp.pc = "loop"
    /\ imp.i < imp_input.n
    /\ imp.i + 1 # imp_input.fails_at
    /\ LET k == imp.i + 1
       IN  /\ imp_fs' = [imp_fs EXCEPT !.dirs = @ \cup {TargetDir(k)}]
           /\ imp_db' = [imp_db EXCEPT
                  !.rows = insert_data_info(InsertsBeforeRead(@, k), k)]
           /\ imp' = [imp EXCEPT !.i = k,
                  !.move_path = Append(@, <<Src(k), Dst(k)>>)]
    /\ UNCHANGED <<imp_input, pool>>
    /\ UNCHANGED <<parser, parseVars, folderVars, valleyVars, bandVars,
                   sweepVars, ssrfVars, dutVars>>

\* One pass of the loop body that raises: at target_dir.mkdir, before any
\* statement of this pass, or at read_spectrum, after insert_measurement_data.
\* The handler rolls back and re-raises.
ImportFileRaises ==
    /\ imp.pc = "loop"
    /\ imp.i < imp_input.n
    /\ imp.i + 1 = imp_input.fails_at
    /\ LET k    == imp.i + 1
           read == imp_input.fail_point = "read_spectrum"
           open == IF read
                   THEN [imp_db EXCEPT !.rows = InsertsBeforeRead(@, k)]
                   ELSE imp_db
       IN  /\ imp_fs' = IF read
                        THEN [imp_fs EXCEPT !.dirs = @ \cup {TargetDir(k)}]
                        ELSE imp_fs
           /\ imp_db' = ExceptHandler(open)
           /\ imp' = [imp EXCEPT !.pc = "raised",
                                 !.error = imp_input.fail_point]
    /\ UNCHANGED <<imp_input, pool>>
    /\ UNCHANGED <<parser, parseVars, folderVars, valleyVars, bandVars,
                   sweepVars, ssrfVars, dutVars>>

\* self.conn.commit(), then executor.map submits one task per entry of
\* move_path
Commit ==
    /\ imp.pc = "loop"
    /\ imp.i = imp_input.n
    /\ imp_db' = [imp_db EXCEPT !.committed = imp_db.rows]
    /\ pool' = [t \in 1..Len(imp.move_path) |-> "queued"]
    /\ imp' = [imp EXCEPT !.pc = "moving", !.committed = TRUE]
    /\ UNCHANGED <<imp_input, imp_fs>>
    /\ UNCHANGED <<parser, parseVars, folderVars, valleyVars, bandVars,
                   sweepVars, ssrfVars, dutVars>>

Running == {t \in DOMAIN pool : pool[t] = "running"}

Queued == {t \in DOMAIN pool : pool[t] = "queued"}

\* A free worker takes the oldest task still in the queue
StartMove ==
    /\ imp.pc \in {"moving", "draining"}
    /\ Queued # {}
    /\ Cardinality(Running) < max_workers
    /\ LET t == CHOOSE q \in Queued : \A r \in Queued : q <= r
       IN  pool' = [pool EXCEPT ![t] = "running"]
    /\ UNCHANGED <<imp_input, imp, imp_db, imp_fs>>
    /\ UNCHANGED <<parser, parseVars, folderVars, valleyVars, bandVars,
                   sweepVars, ssrfVars, dutVars>>

\* move_file((src, dst)) of a running task comes to its end: the file is at
\* dst, or rename and shutil.move both failed and the task holds the error.
FinishMove ==
    /\ \E t \in Running :
          LET src == imp.move_path[t][1]
              dst == imp.move_path[t][2]
              cannot == \E k \in imp_input.stuck : Src(k) = src
          IN  /\ pool' = [pool EXCEPT ![t] = IF cannot THEN "failed" ELSE "done"]
              /\ imp_fs' = IF cannot THEN imp_fs
                           ELSE [imp_fs EXCEPT !.files = (@ \ {src}) \cup {dst}]
    /\ UNCHANGED <<imp_input, imp, imp_db>>
    /\ UNCHANGED <<parser, parseVars, folderVars, valleyVars, bandVars,
                   sweepVars, ssrfVars, dutVars>>

\* list(executor.map(...)) takes the results in the order of move_path.  The
\* error of a failed task is raised there, and on the way out the tasks not
\* yet started are cancelled.
Collect ==
    /\ imp.pc = "moving"
    /\ imp.collected < Len(imp.move_path)
    /\ LET t == imp.collected + 1
       IN  \/ /\ pool[t] = "done"
              /\ imp' = [imp EXCEPT !.collected = t]
              /\ pool' = pool
           \/ /\ pool[t] = "failed"
              /\ imp' = [imp EXCEPT !.pc = "draining", !.error = "move"]
              /\ pool' = [q \in DOMAIN pool |->
                             IF pool[q] = "queued" THEN "cancelled" ELSE pool[q]]
    /\ UNCHANGED <<imp_input, imp_db, imp_fs>>
    /\ UNCHANGED <<parser, parseVars, folderVars, valleyVars, bandVars,
                   sweepVars, ssrfVars, dutVars>>

\* Leaving the with block waits for the running tasks; then the handler
\* rolls back and re-raises.
Reraise ==
    /\ imp.pc = "draining"
    /\ Running = {}
    /\ imp_db' = ExceptHandler(imp_db)
    /\ imp' = [imp EXCEPT !.pc = "raised"]
    /\ UNCHANGED <<imp_input, imp_fs, pool>>
    /\ UNCHANGED <<parser, parseVars, folderVars, valleyVars, bandVars,
                   sweepVars, ssrfVars, dutVars>>

\* return valid_files, invalid_files
Return ==
    /\ imp.pc = "moving"
    /\ imp.collected = Len(imp.move_path)
    /\ imp' = [imp EXCEPT !.pc = "returned"]
    /\ UNCHANGED <<imp_input, imp_db, imp_fs, pool>>
    /\ UNCHANGED <<parser, parseVars, folderVars, valleyVars, bandVars,
                   sweepVars, ssrfVars, dutVars>>

NextImport ==
    \/ Begin
    \/ ImportFile
    \/ ImportFileRaises
    \/ Commit
    \/ StartMove
    \/ FinishMove
    \/ Collect
    \/ Reraise
    \/ Return

SpecImport == InitImport /\ [][NextImport]_vars

(***************************************************************************)
(* Properties of parse_filename                                            *)
(***************************************************************************)
Called == outcome.kind # "none"

Basename == PathName(filename)

\* The grammar of parser p matched in full: the pattern matches and the name
\* ends with one of the three extensions.
GrammarInFull(p, name) ==
    /\ RegexMatch(PatternOf(p), name).matched
    /\ \E e \in SUPPORTED_EXTENSIONS : EndsWith(name, e)

\* C1: parse_filename fails with the format error (ValueError) for every
\* filename whose basename does not match the fixed-prefix grammar in full,
\* and a record it returns has every fixed field, none of them empty.
C1_MismatchIsFormatError ==
    /\ Called /\ ~GrammarInFull(parser, Basename) => outcome.kind = "ValueError"
    /\ outcome.kind = "ok" =>
          /\ DOMAIN outcome.fixed = GroupNames(PatternOf(parser))
          /\ \A k \in DOMAIN outcome.fixed : outcome.fixed[k] # <<>>

IsLegacyName(name) == RegexMatch(MAIN_PATTERN, name).matched

IsExtendedName(name) == RegexMatch(DatabaseAPI_MAIN_PATTERN, name).matched

LogTiles(log, n) ==
    /\ log = <<>> => n = 0
    /\ log # <<>> => log[1].at = 0 /\ log[Len(log)].at + log[Len(log)].n = n
    /\ \A k \in 1..(Len(log) - 1) : log[k + 1].at = log[k].at + log[k].n

Count(log, out) == Cardinality({k \in 1..Len(log) : log[k].out = out})

\* C3 as stated: when parse_filename returns, every token was consumed by
\* exactly one rule, every rule application appended one entry (no token
\* was stepped over without output), and the cursor equals the token count.
C3_EveryTokenYieldsOutput ==
    outcome.kind = "ok" =>
        /\ LogTiles(outcome.log, Len(outcome.tokens))
        /\ outcome.i = Len(outcome.tokens)
        /\ \A k \in 1..Len(outcome.log) : outcome.log[k].out # "none"

\* C3 as amended: every token is consumed by exactly one rule and the cursor
\* ends at the token count; a rule application appends exactly one entry,
\* except that an empty token that reaches Rule D is stepped over without
\* output (and only such a token is).
C3_TokensConsumedOnce ==
    outcome.kind = "ok" =>
        /\ LogTiles(outcome.log, Len(outcome.tokens))
        /\ outcome.i = Len(outcome.tokens)
        /\ \A k \in 1..Len(outcome.log) :
              outcome.log[k].out = "none" <=>
                  /\ outcome.log[k].rule = "D"
                  /\ outcome.tokens[outcome.log[k].at + 1] = <<>>
        /\ Len(outcome.SMU) = Count(outcome.log, "SMU")
        /\ Len(outcome.arguments) = Count(outcome.log, "arguments")

\* A returned walk over four tokens that took an explicit argument, stepped
\* over an empty token and took a bare argument.
C3_Witness ==
    /\ outcome.kind = "ok" /\ Len(outcome.tokens) = 4
    /\ \E k \in 1..Len(outcome.log) : outcome.log[k].rule = "C"
    /\ \E k \in 1..Len(outcome.log) : outcome.log[k].out = "none"
    /\ Len(outcome.arguments) = 2

\* A bare numeric+unit token: a number and a unit and nothing else, and so
\* neither marker.
IsBare(token) ==
    LET m == NumericUnit(token)
    IN  m.matched /\ token = m.number \o m.unit

ValueOf(token) == <<Float(NumericUnit(token).number), NumericUnit(token).unit>>

AllBare(tokens) == tokens # <<>> /\ \A k \in 1..Len(tokens) : IsBare(tokens[k])

\* C4 as stated: for a suffix of bare numeric+unit tokens only, of any token
\* count, the argument list has one entry per token, in order, and the
\* electrical-condition list is empty.
C4_BareTokensAreArguments ==
    Called /\ AllBare(outcome.tokens) =>
        /\ outcome.kind = "ok"
        /\ outcome.SMU = <<>>
        /\ Len(outcome.arguments) = Len(outcome.tokens)
        /\ \A k \in 1..Len(outcome.tokens) :
              outcome.arguments[k].value = ValueOf(outcome.tokens[k])

\* C4 as amended: of k bare tokens the leading 3 * (k div 3) are taken three
\* at a time as implicit blocks (type, channel, value) and only the last
\* k mod 3 become arguments, in order.  The argument list has one entry per
\* token, and the electrical-condition list is empty, exactly when k <= 2.
C4_BareTokensByThrees ==
    Called /\ AllBare(outcome.tokens) =>
        LET k == Len(outcome.tokens)
            b == k \div 3
        IN  /\ outcome.kind = "ok"
            /\ Len(outcome.SMU) = b
            /\ Len(outcome.arguments) = k % 3
            /\ \A j \in 1..b :
                  outcome.SMU[j] = [ec |-> j,
                                    type |-> outcome.tokens[3 * j - 2],
                                    channel |-> outcome.tokens[3 * j - 1],
                                    value |-> ValueOf(outcome.tokens[3 * j])]
            /\ \A j \in 1..(k % 3) :
                  outcome.arguments[j] =
                      [arg |-> j, value |-> ValueOf(outcome.tokens[3 * b + j])]
            /\ (k <= 2 <=> (outcome.SMU = <<>> /\ Len(outcome.arguments) = k))

\* Four bare tokens: one implicit block, one argument.
C4_Witness ==
    /\ outcome.kind = "ok" /\ AllBare(outcome.tokens)
    /\ Len(outcome.tokens) = 4
    /\ Len(outcome.SMU) = 1 /\ Len(outcome.arguments) = 1

\* Where the walk stood when the call ended: the cursor, and whether an arg
\* marker had been consumed.
PassedArg == \E k \in 1..Len(outcome.log) : outcome.log[k].rule = "C"

\* The 1-based position of the token that the rule applying at cursor i
\* parses as a numeric+unit value.
ValuePosition(tokens, i, passed) ==
    IF tokens[i + 1] = s_SMU THEN i + 4
    ELSE IF i + 2 < Len(tokens) /\ tokens[i + 1] # s_arg /\ ~passed THEN i + 3
    ELSE IF tokens[i + 1] = s_arg THEN i + 2
    ELSE i + 1

\* The walk stopped at a rule whose value token is there, is parsed (Rule D
\* does not parse an empty token) and has no leading numeric prefix.
StoppedAtBadValue ==
    /\ Called /\ outcome.i < Len(outcome.tokens)
    /\ LET pos == ValuePosition(outcome.tokens, outcome.i, PassedArg)
       IN  /\ pos <= Len(outcome.tokens)
           /\ pos = outcome.i + 1 => outcome.tokens[pos] # <<>>
           /\ ~NumericUnit(outcome.tokens[pos]).matched

\* C5: a value token without a leading numeric prefix makes parse_filename
\* fail with an error of the format-error family (ValueError), the one the
\* callers of parse_filename catch.
C5_BadValueIsFormatError == StoppedAtBadValue => outcome.kind = "ValueError"

ExampleName ==
    <<"S", "P", "C", "M", "_", "W", "0", "0", "1", "_", "D", "1", "_", "d", "i", "e", "2", "_", "C", "1", "_", "D", "e", "v", "1", "_", "2", "5", "C", "_", "r", "e", "p", "1", "_", "c", "h", "_", "1", "_", "2", "_", "-", "1", "0", "d", "B", "m", "_", "S", "M", "U", "_", "p", "n", "_", "1", "_", "9", "0", "0", "m", "V", ".", "c", "s", "v">>

ExampleFixed ==
    [datatype |-> <<"S", "P", "C", "M">>, wafer |-> <<"W", "0", "0", "1">>,
     doe |-> <<"D", "1">>, die |-> <<"2">>, cage |-> <<"C", "1">>,
     device |-> <<"D", "e", "v", "1">>, temperature |-> <<"2", "5">>,
     repeat |-> <<"1">>, ch_in |-> <<"1">>, ch_out |-> <<"2">>,
     power |-> <<"-", "1", "0">>]

ExtendedFixed ==
    [datatype |-> <<"D", "C", "I", "V">>, wafer |-> <<"P", "I", "C", "9", "-", "F", "P", "N", "3">>,
     doe |-> <<"D", "O", "E", "1">>, cage |-> <<"M", "R", "M", "1", "5", "8">>, die |-> <<"1">>,
     subdie |-> <<"1">>, temperature |-> <<"2", "5">>, repeat |-> <<"1">>,
     device |-> <<"D", "4">>, ch_in |-> <<"9">>, ch_out |-> <<"9">>,
     power |-> <<"5">>]

\* The value each bare token of the vocabulary stands for, written out.
ExpectedValue(token) ==
    CASE token = <<"1">> -> <<[num |-> 1, exp |-> 0], <<>>>>
      [] token = <<"9", "0", "0", "m", "V">> ->
             <<[num |-> 900, exp |-> 0], <<"m", "V">>>>
      [] token = <<"-", "1", ".", "5", "V">> ->
             <<[num |-> -15, exp |-> 1], <<"V">>>>

\* C6: a grammar-matching filename whose suffix is exactly one explicit
\* block _SMU_<type>_<channel>_<number><unit> parses to the fixed fields
\* captured from the prefix, exactly one electrical-condition entry
\* (type, channel, (number, unit)) and no argument; the spec's example
\* gives die 2, temperature 25, repeat 1, ch_in 1, ch_out 2, power -10 and
\* SMU = [(pn, 1, (900.0, mV))].
C6_ExplicitBlock ==
    /\ \A t \in Vocabulary, c \in Vocabulary, v \in {x \in Vocabulary : IsBare(x)} :
          Called /\ filename = SuffixInput(parser, <<s_SMU, t, c, v>>) =>
              /\ outcome.kind = "ok"
              /\ outcome.fixed = (IF parser = "main" THEN ExampleFixed
                                                     ELSE ExtendedFixed)
              /\ outcome.SMU = <<[ec |-> 1, type |-> t, channel |-> c,
                                  value |-> ExpectedValue(v)]>>
              /\ outcome.arguments = <<>>
    /\ Called /\ parser = "main" /\ filename = ExampleName =>
          /\ outcome.kind = "ok"
          /\ outcome.fixed = ExampleFixed
          /\ outcome.SMU = <<[ec |-> 1, type |-> <<"p", "n">>, channel |-> <<"1">>,
                              value |-> <<[num |-> 900, exp |-> 0], <<"m", "V">>>>]>>
          /\ outcome.arguments = <<>>

\* The spec's example has been parsed.
C6_Witness ==
    parser = "main" /\ filename = ExampleName /\ outcome.kind = "ok"

\* A filename written from the fixed fields of a legacy record: the fields
\* in the order of the legacy grammar, each behind its tag, no rest.
Synthesise(fixed) ==
    fixed["datatype"] \o <<"_">> \o fixed["wafer"] \o <<"_">> \o fixed["doe"]
        \o <<"_">> \o s_die \o fixed["die"]
        \o <<"_">> \o fixed["cage"] \o <<"_">> \o fixed["device"]
        \o <<"_">> \o fixed["temperature"] \o <<"C">>
        \o <<"_">> \o s_rep \o fixed["repeat"]
        \o <<"_">> \o s_ch \o <<"_">> \o fixed["ch_in"] \o <<"_">> \o fixed["ch_out"]
        \o <<"_">> \o fixed["power"] \o s_dBm \o s_csv

\* C7: for every filename valid under grammar variant 1 (legacy), parsing
\* it, writing a filename from the parsed fixed fields and parsing that
\* again gives the same fixed fields; the whole record is the same when
\* the first name had no rest.
C7_RoundTrip ==
    parser = "main" /\ outcome.kind = "ok" =>
        LET again == parse_filename("main", Synthesise(outcome.fixed))
        IN  /\ again.kind = "ok"
            /\ again.fixed = outcome.fixed
            /\ again.SMU = <<>> /\ again.arguments = <<>>
            /\ (outcome.SMU = <<>> /\ outcome.arguments = <<>>) =>
                   [again EXCEPT !.tokens = outcome.tokens,
                                 !.i = outcome.i, !.log = outcome.log] = outcome

\* A legacy name with a negative temperature, in a directory, was parsed.
C7_Witness ==
    /\ parser = "main" /\ outcome.kind = "ok"
    /\ outcome.fixed["temperature"] = <<"-", "5">>
    /\ filename # Basename


(***************************************************************************)
(* Properties of parse_folder                                              *)
(***************************************************************************)
Supported(f) == \E e \in SUPPORTED_EXTENSIONS : EndsWith(f, e)

Listed(f) == \E k \in 1..Len(invalid_files) : invalid_files[k] = f

\* C8: parse_folder ends by returning, with every file of a supported
\* extension either valid (with its parsed record) or listed as invalid,
\* never both; a filename that cannot be parsed, for its prefix or for a
\* malformed or missing suffix token, is listed and does not end the scan.
C8_EveryFileClassified ==
    folder_exists /\ scan.status \in {"returned", "raised"} =>
        /\ scan.status = "returned"
        /\ \A f \in folder :
              Supported(f) =>
                  /\ (f \in DOMAIN valid_files) # Listed(f)
                  /\ f \in DOMAIN valid_files =>
                        valid_files[f] = parse_filename(parser, f)
                  /\ Listed(f) <=> parse_filename(parser, f).kind # "ok"


(***************************************************************************)
(* Properties of MRM_SPCM_analysis                                         *)
(***************************************************************************)
Analysed == analysis.kind # "none"

\* C9: MRM_SPCM_analysis fails with the input error (ValueError) whenever
\* the two arrays differ in length or hold fewer than 10 samples, and no
\* baseline fit or valley detection has run by then.
C9_InputErrorFirst ==
    Analysed /\ (Len(wavelength) # Len(loss) \/ Len(wavelength) < 10) =>
        /\ analysis.kind = "ValueError"
        /\ analysis.steps = <<>>
        /\ analysis.valley_idx = <<>> /\ analysis.result = <<>>

\* Nine samples in both arrays, with a dip deep enough to be a valley, were
\* refused.
C9_Witness ==
    /\ Len(wavelength) = 9 /\ Len(loss) = 9
    /\ \E k \in 1..9 : loss[k] <= 0 - 3
    /\ analysis.kind = "ValueError"

\* C10: on arrays of equal length with at least 10 samples the call raises
\* nothing, and when the valley detection accepted fewer than 2 valleys
\* (none or one) every sequence of the returned result is empty.
C10_FewValleysEmptyResult ==
    Analysed /\ Len(wavelength) = Len(loss) /\ Len(loss) >= 10 =>
        /\ analysis.kind = "ok"
        /\ Len(analysis.valley_idx) < 2 =>
              /\ DOMAIN analysis.result # {}
              /\ \A f \in DOMAIN analysis.result : analysis.result[f][1] = <<>>

\* Exactly one valley was accepted and the result came back empty.
C10_Witness ==
    /\ analysis.kind = "ok" /\ Len(analysis.valley_idx) = 1
    /\ analysis.result = EmptyResult

\* C11: every return of MRM_SPCM_analysis, the one for fewer than 2 valleys
\* included, is the tuple (result dict, algorithm name, version).
C11_AlwaysTuple ==
    Analysed /\ analysis.kind = "ok" => analysis.shape = "tuple"

PerValleyFields ==
    {"Extinction Ratio", "FSRnm", "FSRGHz", "FWHMnm", "FWHMGHz", "Q factor",
     "valley_wavelength", "valley_frequency"}

Field(f) == analysis.result[f][1]

\* The valleys next to valley k
Neighbours(k) == {k - 1, k + 1} \cap (1..Len(analysis.valley_idx))

\* Position k of every sequence is about the valley at sample v
AboutValley(k, v) ==
    /\ Field("valley_wavelength")[k] = wavelength[v]
    /\ Field("valley_frequency")[k] = Rat(1, wavelength[v])
    /\ Abs(Field("Extinction Ratio")[k]) =
          peak_prominences(Negate(LossLevel(loss)), v)
    /\ Field("FWHMnm")[k].width = peak_widths(Negate(Ty(loss)), v)
    /\ Field("FWHMGHz")[k].width = peak_widths(Negate(Ty(loss)), v)
    /\ Field("Q factor")[k] = [num |-> wavelength[v], den |-> Field("FWHMnm")[k]]
    /\ \E j \in Neighbours(k) :
          /\ Field("FSRnm")[k] =
                Abs(wavelength[analysis.valley_idx[j]] - wavelength[v])
          /\ ~Field("FSRGHz")[k].nan
          /\ LET step == RatSub(Rat(1, wavelength[analysis.valley_idx[j]]),
                                Rat(1, wavelength[v]))
             IN  \/ RatEq(Field("FSRGHz")[k].v, step)
                 \/ RatEq(Field("FSRGHz")[k].v, RatSub(Rat(0, 1), step))

\* C12: when n >= 2 valleys are accepted the result holds the eight
\* per-valley sequences, each of length exactly n, and position k of every
\* one of them is about the k-th accepted valley.
C12_PerValleyArity ==
    Analysed /\ analysis.kind = "ok" /\ Len(analysis.valley_idx) >= 2 =>
        /\ DOMAIN analysis.result = PerValleyFields
        /\ \A f \in PerValleyFields : Len(Field(f)) = Len(analysis.valley_idx)
        /\ \A k \in 1..Len(analysis.valley_idx) :
              AboutValley(k, analysis.valley_idx[k])

\* Three valleys were accepted, of different widths.
C12_Witness ==
    /\ analysis.kind = "ok" /\ Len(analysis.valley_idx) = 3
    /\ Len(Field("Q factor")) = 3
    /\ ~RatEq(Field("FWHMnm")[1].width, Field("FWHMnm")[2].width)

\* C13: the extinction ratio of every accepted valley is the valley's
\* prominence on the levelled trace (here times n, like the levels), as a
\* positive number of dB.
C13_ExtinctionRatioPositive ==
    Analysed /\ analysis.kind = "ok" /\ Len(analysis.valley_idx) >= 2 =>
        \A k \in 1..Len(analysis.valley_idx) :
            /\ Field("Extinction Ratio")[k] =
                  peak_prominences(Negate(LossLevel(loss)), analysis.valley_idx[k])
            /\ Field("Extinction Ratio")[k] >= 0


(***************************************************************************)
(* Properties of MRM_SSRF_analysis                                         *)
(***************************************************************************)
BandwidthCalled == ssrf.kind # "none"

\* The level looked for: the value at the reference sample less drop_levels
Threshold == s21[ssrf.ref_idx] - drop_levels

\* The pair k, k+1 has unequal values on either side of (or on) the level
Straddles(k) ==
    /\ s21[k] # s21[k + 1]
    /\ \/ s21[k] <= Threshold /\ Threshold <= s21[k + 1]
       \/ s21[k] >= Threshold /\ Threshold >= s21[k + 1]

NoCrossing == \A k \in 1..(Len(s21) - 1) : ~Straddles(k)

\* C14: when no pair of consecutive samples crosses the level, the call
\* fails with the input error (the ValueError of the analysis functions)
\* and returns no bandwidth.
C14_NoCrossingIsInputError ==
    BandwidthCalled /\ NoCrossing =>
        ssrf.kind = "ValueError" /\ ssrf.result = <<>>

\* The fraction x is where the straight line through samples k and k+1
\* takes the value Threshold, and lies inside the pair.
OnLine(x, k) ==
    /\ (x.num - ssrf_frequency[k] * x.den) * (s21[k + 1] - s21[k]) =
          (Threshold - s21[k]) * (ssrf_frequency[k + 1] - ssrf_frequency[k]) * x.den
    /\ ssrf_frequency[k] * x.den <= x.num
    /\ x.num <= ssrf_frequency[k + 1] * x.den

Decreasing == \A k \in 1..(Len(s21) - 1) : s21[k] > s21[k + 1]

\* bandwidth + reference_frequency
CrossingFrequency ==
    LET b == ssrf.result.bandwidth[1]
    IN  Rat(b.num + reference_frequency * b.den, b.den)

\* C15: a returned bandwidth is f_cross - reference_frequency, f_cross
\* being the linear interpolation of the level (value at the sample nearest
\* reference_frequency, less drop_levels) inside the first pair of unequal
\* consecutive samples that straddle it; on a decreasing trace every
\* straddling pair gives that same frequency, the one crossing.
C15_FirstCrossingInterpolated ==
    BandwidthCalled /\ ssrf.kind = "ok" =>
        /\ \A j \in 1..Len(s21) :
              Abs(ssrf_frequency[ssrf.ref_idx] - reference_frequency) <=
                 Abs(ssrf_frequency[j] - reference_frequency)
        /\ \E k \in 1..(Len(s21) - 1) :
              /\ Straddles(k)
              /\ \A j \in 1..(k - 1) : ~Straddles(j)
              /\ OnLine(CrossingFrequency, k)
        /\ ssrf.result.bandwidth[2] = "GHz"
        /\ Decreasing =>
              \A k \in 1..(Len(s21) - 1) :
                  Straddles(k) => OnLine(CrossingFrequency, k)

\* A decreasing trace on the uneven grid crossed the level strictly inside
\* a pair that is not the first.
C15_Witness ==
    /\ ssrf.kind = "ok" /\ Decreasing /\ ssrf.pair >= 2
    /\ ssrf_frequency[2] - ssrf_frequency[1] # ssrf_frequency[3] - ssrf_frequency[2]
    /\ s21[ssrf.pair] > Threshold /\ Threshold > s21[ssrf.pair + 1]
    /\ CrossingFrequency.den > 1


(***************************************************************************)
(* Properties of read_spectrum                                             *)
(***************************************************************************)
SweepRead == sweep.kind # "none"

SweepRowAt(i) == CsvRow(sweep_file[i])

\* Row i holds a section-start marker, row i the section-end marker.
IsStartRow(i) ==
    InRow(START_MIN, SweepRowAt(i)) \/ InRow(START_AVERAGE, SweepRowAt(i))

IsEndRow(i) == InRow(END_MUELLER, SweepRowAt(i))

\* No start marker in the file, or none before the first end marker
NoStartBeforeEnd ==
    \A i \in 1..Len(sweep_file) :
        IsStartRow(i) => \E j \in 1..(i - 1) : IsEndRow(j)

\* C16: a file without a section-start marker row, or with the end marker
\* before any start marker, makes read_spectrum fail with the
\* unsupported-format error (ValueError), and nothing is returned.
C16_NoMarkerIsUnsupported ==
    SweepRead /\ NoStartBeforeEnd =>
        /\ sweep.kind = "ValueError"
        /\ sweep.head = <<>> /\ sweep.data = <<>>

FirstStart ==
    CHOOSE a \in 1..Len(sweep_file) :
        IsStartRow(a) /\ \A j \in 1..(a - 1) : ~IsStartRow(j)

\* The first end marker row after row a; one past the last row without one
EndAfter(a) ==
    IF \E b \in (a + 1)..Len(sweep_file) : IsEndRow(b)
    THEN CHOOSE b \in (a + 1)..Len(sweep_file) :
            IsEndRow(b) /\ \A j \in (a + 1)..(b - 1) : ~IsEndRow(j)
    ELSE Len(sweep_file) + 1

\* Row i of the file as a row of data: every cell a number or NaN, the
\* first one times 1E9
AsData(i) ==
    [k \in 1..Len(SweepRowAt(i)) |->
        IF k = 1 THEN TimesE9(tofloat(SweepRowAt(i)[k]))
        ELSE tofloat(SweepRowAt(i)[k])]

\* C20: the data read_spectrum returns is exactly the rows strictly after
\* the first section-start marker row and strictly before the first
\* section-end marker row that follows (or the end of the file), in file
\* order; every header entry comes from a row before the start marker.
C20_DataBetweenMarkers ==
    SweepRead /\ sweep.kind = "ok" =>
        /\ \E i \in 1..Len(sweep_file) : IsStartRow(i)
        /\ LET a == FirstStart
               b == EndAfter(a)
           IN  /\ Len(sweep.data) = b - a - 1
               /\ \A r \in 1..(b - a - 1) : sweep.data[r] = AsData(a + r)
               /\ \A key \in DOMAIN sweep.head :
                     \E i \in 1..(a - 1) :
                         /\ SweepRowAt(i)[1] = key
                         /\ sweep.head[key] = <<SweepRowAt(i)[2], SweepRowAt(i)[3]>>

\* A row of numbers came before the start marker and an end marker closed
\* the block after one data row.
C20_Witness ==
    /\ sweep.kind = "ok" /\ Len(sweep_file) = 4
    /\ ~IsStartRow(1) /\ tofloat(SweepRowAt(1)[1]) # NaN
    /\ IsStartRow(2) /\ IsEndRow(4)
    /\ Len(sweep.data) = 1


(***************************************************************************)
(* Properties of read_ssrf                                                 *)
(***************************************************************************)
SsrfRead == params.kind # "none"

\* The rows read_ssrf parsed as data
ParsedRows ==
    SsrfLoop(ssrf_file, 1, [in_header |-> TRUE, data |-> <<>>]).data

\* C17: read_ssrf fails with the shape error (ValueError) whenever a parsed
\* data row has fewer than 9 fields, also when only some rows are short.
C17_ShortRowIsShapeError ==
    SsrfRead /\ (\E r \in 1..Len(ParsedRows) : Len(ParsedRows[r]) < 9) =>
        params.kind = "ValueError" /\ params.result = <<>>


(***************************************************************************)
(* Properties of insert_dut                                                *)
(***************************************************************************)
\* The identity of a DUT: wafer, doe, die, cage, device
NaturalKey(r) == <<r.wafer, r.DOE, r.die, r.cage, r.device>>

\* C18: after any sequence of insert_dut calls the DUT table holds exactly
\* one row for every key (wafer, doe, die, cage, device) that was passed
\* and no other row, every call returned the DUT_id of its key's row, and
\* so calls with the same key returned the same DUT_id.
C18_NaturalKeyUpsert ==
    /\ \A k \in 1..Len(dut_calls) :
          /\ dut_calls[k].kind = "ok"
          /\ Cardinality({r \in dut_rows :
                NaturalKey(r) = NaturalKey(dut_calls[k].vals)}) = 1
          /\ \E r \in dut_rows :
                /\ NaturalKey(r) = NaturalKey(dut_calls[k].vals)
                /\ r.DUT_id = dut_calls[k].DUT_id
    /\ \A r \in dut_rows :
          \E k \in 1..Len(dut_calls) : NaturalKey(dut_calls[k].vals) = NaturalKey(r)
    /\ \A j, k \in 1..Len(dut_calls) :
          NaturalKey(dut_calls[j].vals) = NaturalKey(dut_calls[k].vals)
             <=> dut_calls[j].DUT_id = dut_calls[k].DUT_id

\* A key was inserted, another one differing only in the device, and the
\* first one again: two rows.
C18_Witness ==
    /\ Len(dut_calls) = 3
    /\ dut_calls[1].vals = dut_calls[3].vals
    /\ dut_calls[2].vals = [dut_calls[1].vals EXCEPT !.device = "Dev2"]
    /\ dut_calls[1].vals.device = "Dev1"
    /\ Cardinality(dut_rows) = 2
    /\ dut_calls[3].DUT_id = 1


(***************************************************************************)
(* Properties of the suffix walk's rule order                              *)
(***************************************************************************)
\* The rule the stated order selects at cursor i (0-based) when the
\* explicit-argument flag has the value flag.
FirstApplicable(tokens, i, flag) ==
    IF tokens[i + 1] = s_SMU THEN "A"
    ELSE IF ~flag /\ tokens[i + 1] # s_arg /\ Len(tokens) - (i + 1) >= 2 THEN "B"
    ELSE IF tokens[i + 1] = s_arg THEN "C"
    ELSE "D"

\* An explicit argument was taken in an iteration before the k-th.
ArgBefore(log, k) == \E j \in 1..(k - 1) : log[j].rule = "C"

\* C19: in every iteration of the walk the rule that ran is the first
\* applicable in the order A (token is SMU), B (flag not set, token is not
\* arg, at least 2 more tokens remain), C (token is arg), D (otherwise);
\* pass_SMU is set exactly when an earlier iteration ran Rule C and stays
\* set to the end of the walk; and once a cursor position held the arg
\* marker, no later iteration appends an implicit (Rule B) entry.
C19_FirstApplicableRule ==
    Called =>
        /\ \A k \in 1..Len(outcome.log) :
              LET e == outcome.log[k]
              IN  /\ e.rule = FirstApplicable(outcome.tokens, e.at, e.pass_SMU)
                  /\ e.pass_SMU <=> ArgBefore(outcome.log, k)
                  /\ outcome.tokens[e.at + 1] = s_arg => e.rule = "C"
                  /\ ArgBefore(outcome.log, k) => e.rule # "B"
        /\ outcome.pass_SMU <=> ArgBefore(outcome.log, Len(outcome.log) + 1)
        /\ outcome.kind = "ok" =>
              Len(outcome.SMU) = Cardinality({k \in 1..Len(outcome.log) :
                                                outcome.log[k].rule \in {"A", "B"}})

\* A returned walk that took an explicit argument and later stood on a
\* token that is no marker with two more tokens behind it: Rule D ran there,
\* where Rule B would have run had the flag not been set.
C19_Witness ==
    /\ outcome.kind = "ok"
    /\ \E k \in 2..Len(outcome.log) :
          LET e == outcome.log[k]
          IN  /\ ArgBefore(outcome.log, k)
              /\ e.rule = "D"
              /\ outcome.tokens[e.at + 1] \notin {s_SMU, s_arg}
              /\ e.at + 2 < Len(outcome.tokens)
              /\ FirstApplicable(outcome.tokens, e.at, FALSE) = "B"
    /\ outcome.SMU = <<>>


(***************************************************************************)
(* Properties of read_spectrum's section-start markers                     *)
(***************************************************************************)
\* Row i has a cell that begins with '=== Min'.
HasMinPrefix(i) ==
    \E k \in 1..Len(SweepRowAt(i)) : StartsWith(SweepRowAt(i)[k], START_MIN)

\* The loop of read_spectrum reaches row i: no row before it is the end
\* marker or a header row too short to store.
LoopReaches(i) ==
    \A j \in 1..(i - 1) :
        /\ ~IsEndRow(j)
        /\ ~(Len(SweepRowAt(j)) < 3 /\ \E key \in HEADER_KEYS : InRow(key, SweepRowAt(j)))

\* C21: a row with a cell that begins with '=== Min' (such as
\* '=== Min IL (TLS 0) ===') is a section-start marker just as the exact
\* row '=== Average IL (TLS 0) ===' is: the first such row that the loop
\* reaches is the row read_spectrum takes as the start of the data.
C21_MinPrefixIsStartMarker ==
    SweepRead =>
        \A i \in 1..Len(sweep_file) :
            /\ HasMinPrefix(i) \/ InRow(START_AVERAGE, SweepRowAt(i))
            /\ LoopReaches(i)
            /\ \A j \in 1..(i - 1) :
                  ~(HasMinPrefix(j) \/ InRow(START_AVERAGE, SweepRowAt(j)))
            => sweep.start_idx = i


(***************************************************************************)
(* Properties of read_ssrf's header                                        *)
(***************************************************************************)
SsrfRowAt(i) == CsvRow(ssrf_file[i])

\* Row i is not skipped as empty: it has a first field and that is not empty.
NonEmptyRow(i) == SsrfRowAt(i) # <<>> /\ SsrfRowAt(i)[1] # <<>>

HasHash(i) == InRow("#", SsrfRowAt(i)[1])

\* The first non-empty row whose first field contains '#'; one past the
\* last row when there is none
HeaderEnd ==
    IF \E h \in 1..Len(ssrf_file) : NonEmptyRow(h) /\ HasHash(h)
    THEN CHOOSE h \in 1..Len(ssrf_file) :
            /\ NonEmptyRow(h) /\ HasHash(h)
            /\ \A j \in 1..(h - 1) : ~(NonEmptyRow(j) /\ HasHash(j))
    ELSE Len(ssrf_file) + 1

\* The fields of row i as numbers
AsFields(i) ==
    LET row_data == SplitWhitespace(SsrfRowAt(i)[1])
    IN  [k \in 1..Len(row_data) |-> tofloat(row_data[k])]

\* The non-empty rows from row i on, as data rows, in file order
RECURSIVE DataRowsFrom(_)
DataRowsFrom(i) ==
    IF i > Len(ssrf_file) THEN <<>>
    ELSE (IF NonEmptyRow(i) THEN <<AsFields(i)>> ELSE <<>>) \o DataRowsFrom(i + 1)

\* C22: the header of an S-parameter file ends at the first non-empty row
\* whose first field contains '#'.  That row and every row before it give
\* no data, and every non-empty row after it is a data row, in file order,
\* also when it contains '#' itself: the data read_ssrf parses, and stacks
\* when it returns, are exactly those rows.
C22_HeaderEndsOnce ==
    SsrfRead =>
        /\ ParsedRows = DataRowsFrom(HeaderEnd + 1)
        /\ params.kind = "ok" => params.result = Stack(DataRowsFrom(HeaderEnd + 1))

\* A comment row, the '#' row and a data row that holds a '#' itself.
C22_Witness ==
    /\ params.kind = "ok"
    /\ Len(ssrf_file) = 3
    /\ NonEmptyRow(1) /\ ~HasHash(1)
    /\ HeaderEnd = 2
    /\ HasHash(3)
    /\ Len(params.result) = 1


(***************************************************************************)
(* Properties of the free spectral range                                   *)
(***************************************************************************)
\* The wavelength step from accepted valley j to valley j + 1, and the
\* frequency step of the same pair (as a multiple of 299792.458)
StepNm(j) == Field("valley_wavelength")[j + 1] - Field("valley_wavelength")[j]

StepGHz(j) ==
    RatSub(Field("valley_frequency")[j], Field("valley_frequency")[j + 1])

\* FSRGHz[k] is the frequency step of the pair (j, j + 1), whose wavelength
\* step is FSRnm[k].
FromPair(k, j) ==
    /\ Field("FSRnm")[k] = StepNm(j)
    /\ ~Field("FSRGHz")[k].nan
    /\ RatEq(Field("FSRGHz")[k].v, StepGHz(j))

\* C23: with n >= 2 accepted valleys, FSRnm[k] is the larger of the forward
\* step x[k+1] - x[k] and the backward step x[k] - x[k-1]; the first valley
\* has only the forward and the last only the backward step; FSRGHz[k] is
\* the frequency step of the neighbour pair whose step is FSRnm[k].
C23_LargerNeighbourStep ==
    Analysed /\ analysis.kind = "ok" /\ Len(analysis.valley_idx) >= 2 =>
        LET n == Len(analysis.valley_idx)
        IN  /\ FromPair(1, 1)
            /\ FromPair(n, n - 1)
            /\ \A k \in 2..(n - 1) :
                  /\ Field("FSRnm")[k] = Max2(StepNm(k), StepNm(k - 1))
                  /\ StepNm(k) > StepNm(k - 1) => FromPair(k, k)
                  /\ StepNm(k) < StepNm(k - 1) => FromPair(k, k - 1)
                  /\ StepNm(k) = StepNm(k - 1) => FromPair(k, k) \/ FromPair(k, k - 1)

\* Three valleys, the middle one nearer to the first: its FSR is taken from
\* the pair it forms with the last.
C23_Witness ==
    /\ analysis.kind = "ok" /\ Len(analysis.valley_idx) = 3
    /\ StepNm(1) < StepNm(2)
    /\ Field("FSRnm")[2] = StepNm(2)
    /\ RatEq(Field("FSRGHz")[2].v, StepGHz(2))
    /\ ~RatEq(StepGHz(1), StepGHz(2))


(***************************************************************************)
(* Properties of the valley scan                                           *)
(***************************************************************************)
\* The negated levelled trace, its local maxima (the candidate valleys),
\* and a candidate's depth and prominence on it (times the sample count,
\* like the levels)
Levelled == Negate(LossLevel(loss))

Candidates == {c \in 1..Len(loss) :
                  \E k \in 1..Len(LocalMaxima(Levelled)) :
                      LocalMaxima(Levelled)[k] = c}

Depth(c) == Levelled[c]

Prominence(c) == peak_prominences(Levelled, c)

Accepted(c) == \E k \in 1..Len(analysis.valley_idx) : analysis.valley_idx[k] = c

EnoughProminence(c) == Prominence(c) >= Len(loss) * PROMINENCE

\* The two parts of C24 that hold as stated: every accepted valley is a
\* candidate of prominence at least `prominence`, and any two accepted
\* valleys are at least `distance` samples apart.
ProminentAndApart ==
    /\ \A c \in 1..Len(loss) : Accepted(c) => c \in Candidates /\ EnoughProminence(c)
    /\ \A c, d \in 1..Len(loss) :
          Accepted(c) /\ Accepted(d) /\ c # d => Abs(c - d) >= distance

\* C24 as stated: every accepted valley has prominence at least
\* `prominence`, two accepted valleys are at least `distance` samples
\* apart, and of two candidates closer than `distance` the more prominent
\* one is the one kept.  The last part is asked only of a more prominent
\* candidate that is prominent enough to be accepted and has no third
\* candidate closer than `distance` to it.
C24_MoreProminentKept ==
    Analysed /\ analysis.kind = "ok" =>
        /\ ProminentAndApart
        /\ \A c, d \in Candidates :
              /\ c # d /\ Abs(c - d) < distance
              /\ Prominence(c) > Prominence(d)
              /\ EnoughProminence(c)
              /\ \A e \in Candidates \ {c, d} : Abs(c - e) >= distance
              => Accepted(c)

\* C24 as amended: every accepted valley has prominence at least
\* `prominence`, two accepted valleys are at least `distance` samples
\* apart, and a candidate of sufficient prominence is left out only when
\* another candidate at least as deep lies closer than `distance` samples:
\* among close candidates the deeper one takes precedence, not the more
\* prominent one, and the prominence condition is applied afterwards.
C24_DeeperTakesPrecedence ==
    Analysed /\ analysis.kind = "ok" =>
        /\ ProminentAndApart
        /\ \A c \in Candidates :
              EnoughProminence(c) /\ ~Accepted(c) =>
                  \E d \in Candidates :
                      /\ d # c /\ Abs(c - d) < distance
                      /\ Depth(d) >= Depth(c)

\* Two candidates and nothing accepted: the valley of sufficient prominence
\* gave way to a deeper one on a slope, which was then rejected for its
\* prominence.
C24_Witness ==
    /\ analysis.kind = "ok" /\ analysis.valley_idx = <<>>
    /\ Cardinality(Candidates) = 2
    /\ \E c, d \in Candidates :
          /\ EnoughProminence(c) /\ ~EnoughProminence(d)
          /\ Depth(d) > Depth(c)
          /\ Abs(c - d) < distance


(***************************************************************************)
(* Properties of the order of the valleys                                  *)
(***************************************************************************)
StrictlyIncreasing(seq) == \A k \in 1..(Len(seq) - 1) : seq[k] < seq[k + 1]

StrictlyDecreasing(seq) == \A k \in 1..(Len(seq) - 1) : seq[k] > seq[k + 1]

\* C25 as stated: for every input the function accepts, the per-valley
\* sequences are ordered by ascending x: valley_wavelength is strictly
\* increasing.
C25_AscendingWavelength ==
    Analysed /\ analysis.kind = "ok" /\ Len(analysis.valley_idx) >= 2 =>
        StrictlyIncreasing(Field("valley_wavelength"))

\* C25 as amended: the per-valley sequences are in detection order, that of
\* ascending sample index: position k is about the k-th accepted valley
\* from the start of the arrays.  valley_wavelength is strictly increasing
\* when the wavelength array is strictly increasing, and strictly decreasing
\* when that is strictly decreasing: the function takes the axis as given.
C25_DetectionOrder ==
    Analysed /\ analysis.kind = "ok" /\ Len(analysis.valley_idx) >= 2 =>
        /\ StrictlyIncreasing(analysis.valley_idx)
        /\ \A k \in 1..Len(analysis.valley_idx) :
              /\ Field("valley_wavelength")[k] = wavelength[analysis.valley_idx[k]]
              /\ Field("valley_frequency")[k] = Rat(1, wavelength[analysis.valley_idx[k]])
        /\ StrictlyIncreasing(wavelength) => StrictlyIncreasing(Field("valley_wavelength"))
        /\ StrictlyDecreasing(wavelength) => StrictlyDecreasing(Field("valley_wavelength"))

\* Two valleys on an axis swept from long to short wavelengths.
C25_Witness ==
    /\ analysis.kind = "ok" /\ Len(analysis.valley_idx) = 2
    /\ StrictlyDecreasing(wavelength)
    /\ Field("valley_wavelength")[1] > Field("valley_wavelength")[2]


(***************************************************************************)
(* Properties of the suffix walk's reads                                   *)
(***************************************************************************)
\* C28: for every token list the walk reads only token positions that
\* exist: no call ends in a read past the end of the token list (an
\* IndexError), also when the suffix ends in an SMU or arg block that is
\* cut short.
C28_NoReadPastEnd ==
    Called => outcome.kind # "IndexError"


\* C29: on a frequency-ascending trace a returned bandwidth comes from a
\* crossing pair that lies at or after the reference sample (the sample
\* nearest reference_frequency), and the bandwidth is not negative.
C29_BandwidthNotNegative ==
    BandwidthCalled /\ ssrf.kind = "ok" =>
        /\ ssrf.pair >= ssrf.ref_idx
        /\ ssrf.result.bandwidth[1].num >= 0


(***************************************************************************)
(* Properties of import_measurement_folder                                 *)
(***************************************************************************)
ImportFinished == imp.pc \in {"returned", "raised"}

\* The files where they were when the call began
SourceFiles == {Src(k) : k \in 1..imp_input.n}

\* C26: when an exception is raised before the commit, the call rolls back
\* and re-raises it: no DUT, session, condition, data or info row of this
\* call is in the tables, committed or open, and no file has been moved.
C26_AllOrNothingBeforeCommit ==
    imp.pc = "raised" /\ ~imp.committed =>
        /\ imp.error # ""
        /\ imp_db.committed = PriorRows(imp_input.prior)
        /\ imp_db.rows = PriorRows(imp_input.prior)
        /\ imp_fs.files = SourceFiles
        /\ pool = <<>>

\* The second file made read_spectrum raise, after the first file's rows and
\* its own DUT, session, condition and data rows were written.
C26_Witness ==
    /\ imp.pc = "raised" /\ ~imp.committed
    /\ imp.i = 1 /\ imp.error = "read_spectrum"
    /\ Len(imp.move_path) = 1
    /\ imp_fs.dirs = {TargetDir(1), TargetDir(2)}
    /\ imp_db.rows.DUT = {}


\* A task of the pool has been taken up by a worker
MoveStarted == \E t \in DOMAIN pool : pool[t] \in {"running", "done", "failed"}

\* Where the files are once every move that can succeed has been made
AllMoved ==
    {IF k \in imp_input.stuck THEN Src(k) ELSE Dst(k) : k \in 1..imp_input.n}

\* Moves start only after the commit
MovesAfterCommit ==
    MoveStarted \/ imp_fs.files # SourceFiles => imp.committed

\* The pool is given the whole list: one (src, dst) per valid file
ListComplete ==
    pool # <<>> =>
        /\ Len(imp.move_path) = imp_input.n
        /\ DOMAIN pool = 1..imp_input.n
        /\ \A t \in DOMAIN pool : imp.move_path[t] = <<Src(t), Dst(t)>>

\* No two entries of move_path name the same destination
DistinctDestinations ==
    \A t, u \in 1..Len(imp.move_path) :
        t # u => imp.move_path[t][2] # imp.move_path[u][2]

\* C27: no move starts before the commit, the pool starts with the complete
\* list of (src, dst) pairs, the destinations are pairwise distinct, and when
\* the call is over the files are where the moves put them whatever the
\* order the workers ran in.
C27_SameOutcomeForEveryInterleaving ==
    /\ MovesAfterCommit
    /\ ListComplete
    /\ DistinctDestinations
    /\ ImportFinished /\ imp.committed => imp_fs.files = AllMoved

\* C30: when the call is over, by return or by raise, every committed
\* MeasurementData row names in file_path a place where the file is.
C30_CommittedPathsExist ==
    ImportFinished =>
        \A row \in imp_db.committed.MeasurementData :
            row.file_path \in imp_fs.files

=============================================================================
